---- MODULE Spec2Model ----
(***************************************************************************)
(* Distributed web crawling and indexing pipeline: the UI's job submission *)
(* (src/src/UI/main.py home), the Master job expander                      *)
(* (src/src/master/master_node.py), the Crawler worker                     *)
(* (src/src/crawler/crawler_node.py), the Indexer worker                   *)
(* (src/src/indexer/indexer_node.py) and the UI's progress aggregator      *)
(* (src/src/UI/main.py listen_to_progress, update_summary_stats).          *)
(*                                                                         *)
(* Pub/Sub subscriptions are sets of unacked messages: a handler picks any *)
(* unacked message, ack removes it, nack leaves it for redelivery.         *)
(* Blocking I/O (publish, blob read/write, HTTP) either succeeds or fails; *)
(* failures are injected nondeterministically, at most MaxFaults per run.  *)
(* uuid.uuid4() is a counter of fresh identifiers.                         *)
(* URLs are sequences of tokens ("http", "://", "a", "/", "p", ...): the   *)
(* token "http" stands for the letters of the scheme, every other token is *)
(* a delimiter or one host/path/query segment.                             *)
(***************************************************************************)
EXTENDS Integers, Sequences, FiniteSets, Bags, TLC

(* ------------------------------ bounds -------------------------------- *)
\* number of jobs the UI form submits in one run
MaxJobs == 1
\* number of I/O failures (timeouts, publish and blob errors) in one run
MaxFaults == 1
\* largest depth limit a submitted job carries
MaxDepth == 1
\* number of jobs the UI form submits in one run of the Aggregator alone
MaxSubmissions == 2
\* number of progress events delivered in one run of the Aggregator alone
MaxEvents == 3
\* number of tokens after the host in the URLs normalize_url is studied on
MaxTail == 3
\* seconds the clock advances in one step, and the time at which it stops
TickSeconds == 150
MaxTime == 750

(* ------------------------- python dict helpers ------------------------ *)
\* None, as the value of an absent optional field
None == "None"

\* dict.get(key, default)
Get(d, key, default) == IF key \in DOMAIN d THEN d[key] ELSE default

\* the positions of a sequence
Idx(s) == 1..Len(s)

(* ------------------------------- URLs --------------------------------- *)
\* str.lower() on one token
LowerTok(t) ==
  CASE t = "A" -> "a"
    [] t = "P" -> "p"
    [] t = "X" -> "x"
    [] OTHER -> t

lower(s) == [i \in Idx(s) |-> LowerTok(s[i])]

\* str.rstrip('/'): the slashes of a trailing "://" are stripped as well
RECURSIVE rstrip(_)
rstrip(s) ==
  IF s = <<>> THEN s
  ELSE IF s[Len(s)] = "/" THEN rstrip(SubSeq(s, 1, Len(s) - 1))
  ELSE IF s[Len(s)] = "://" THEN SubSeq(s, 1, Len(s) - 1) \o <<":">>
  ELSE s

\* index of the first token of s that is in S, Len(s) + 1 when there is none
FirstIn(s, S) ==
  IF \E i \in Idx(s) : s[i] \in S
  THEN CHOOSE i \in Idx(s) : s[i] \in S /\ \A j \in 1..(i - 1) : s[j] \notin S
  ELSE Len(s) + 1

\* s before position i, and s from position i on
Before(s, i) == SubSeq(s, 1, i - 1)
From(s, i) == SubSeq(s, i, Len(s))

\* urlparse, last: split the query off at the first "?"
SplitQuery(scheme, netloc, noFrag, fragment, iQuery) ==
  [scheme |-> scheme, netloc |-> netloc, path |-> Before(noFrag, iQuery),
   query |-> From(noFrag, iQuery + 1), fragment |-> fragment]

\* urlparse, third: split the fragment off at the first "#"
SplitFragment(scheme, netloc, afterNet, iFrag) ==
  SplitQuery(scheme, netloc, Before(afterNet, iFrag), From(afterNet, iFrag + 1),
             FirstIn(Before(afterNet, iFrag), {"?"}))

\* urlparse, second: the netloc runs from "//" to the first of "/", "?", "#"
SplitNetloc(scheme, rest, iNet) ==
  SplitFragment(scheme, Before(rest, iNet), From(rest, iNet),
                FirstIn(From(rest, iNet), {"#"}))

\* urllib.parse.urlparse: scheme (lower-cased), netloc, path, query, fragment
urlparse(u) ==
  IF Len(u) >= 2 /\ u[2] = "://"
  THEN SplitNetloc(lower(<<u[1]>>), From(u, 3), FirstIn(From(u, 3), {"/", "?", "#"}))
  ELSE IF Len(u) >= 2 /\ u[2] = ":"
  THEN SplitNetloc(lower(<<u[1]>>), From(u, 3), 1)
  ELSE SplitNetloc(<<>>, u, 1)

\* the string normalize_url builds from the parsed URL
Normalized(parsed) ==
  rstrip(lower(parsed.scheme \o <<"://">> \o parsed.netloc \o parsed.path
               \o (IF parsed.query # <<>> THEN <<"?">> \o parsed.query ELSE <<>>)))

\* CrawlerNode.normalize_url
normalize_url(url) == Normalized(urlparse(url))

\* urljoin of a parsed base and an href
Joined(b, href, h) ==
  IF h.scheme # <<>> THEN href ELSE b.scheme \o <<"://">> \o b.netloc \o href

\* urllib.parse.urljoin(base, href) for an absolute href (returned as it
\* is) and for a relative href that is an absolute path
urljoin(base, href) == Joined(urlparse(base), href, urlparse(href))

\* `not url or not url.startswith('http')`
InvalidUrl(url) == url = <<>> \/ url[1] \notin {"http", "https"}

(* --------------------------- the crawled web -------------------------- *)
UA    == <<"http", "://", "a", "/">>
UAalt == <<"http", "://", "A">>
UP    == <<"http", "://", "a", "/", "p">>
UB    == <<"http", "://", "b", "/", "x">>
UC    == <<"http", "://", "c", "/">>
UE    == <<"http", "://", "a", "/", "e">>
\* a URL with userinfo "a" on host b
UU    == <<"http", "://", "a", "@", "b", "/", "x">>

\* what the origin servers answer, by normalised URL: an HTML page with
\* its <a href> values, another content type, or an HTTP error status
Web ==
  [u \in {normalize_url(UA), normalize_url(UP), normalize_url(UB),
          normalize_url(UC), normalize_url(UE)} |->
     CASE u = normalize_url(UA) ->
            [kind |-> "html", links |-> << <<"/", "p">>, UB, <<"mailto", ":", "x">>, UU >>]
       [] u = normalize_url(UP) ->
            [kind |-> "html", links |-> << UA, <<"/", "P", "#", "top">>, <<"/", "e">> >>]
       [] u = normalize_url(UB) -> [kind |-> "other", links |-> <<>>]
       [] u = normalize_url(UC) -> [kind |-> "html", links |-> <<>>]
       [] OTHER -> [kind |-> "error", links |-> <<>>]]

Page(url) ==
  IF normalize_url(url) \in DOMAIN Web THEN Web[normalize_url(url)]
  ELSE [kind |-> "error", links |-> <<>>]

\* hosts whose robots.txt disallows everything for every user agent
RobotsDisallowAll == {<<"c">>}

(* --------------------------- submitted jobs --------------------------- *)
SeedLists == {<<UA, UAalt>>, <<UC, UB>>, <<UE>>}
Depths == (-1)..MaxDepth
Domains == {None, "a"}

\* the (seed list, depth limit, domain restriction) triples the form posts
JobInputs == SeedLists \X Depths \X Domains

(* ------------------------------- state -------------------------------- *)
VARIABLES
  blobs,                \* blob store: set of [path, data]
  jobQ,                 \* unacked job-submission messages (to Master)
  crawlQ,               \* unacked crawl-task messages (to Crawlers)
  indexQ,               \* unacked index-task messages (to Indexers)
  progress,             \* bag of the events published on the progress topic
  nextId,               \* the next fresh uuid4
  faults,               \* number of I/O failures injected so far
  submitted,            \* number of jobs the form has posted
  total_jobs_received,  \* MasterNode.total_jobs_received
  total_crawled,        \* MasterNode.total_crawled
  seen_urls,            \* CrawlerNode.seen_urls, per crawler process
  robots_cache,         \* CrawlerNode.robots_cache, per crawler process
  es_index,             \* the full-text index: document id -> document
  handled,              \* what the last handler invocation did to its message
  lineage,              \* history: id -> the job and page it descends from
  crawlPublished,       \* history: crawl-task messages Master has published
  announced,            \* history: link-batch envelopes crawlers have published
  timedOut,             \* history: crawl tasks nacked after a fetch timeout
  fetches,              \* history: bag of the URLs fetched (HTTP GET issued)
  indexPublished,       \* history: index-task messages crawlers have published
  upserted,             \* history: index tasks whose document has been written
  tasks,                \* app_state["tasks"]
  summary,              \* app_state["summary"]
  seed_url_to_task,     \* app_state["seed_url_to_task"]
  known_task_ids,       \* app_state["known_task_ids"]
  cbTask,               \* progress callback awaiting update_summary_stats: its task id, NoId when idle
  observed,             \* what the read API last returned: task id -> task entry
  delivered,            \* number of progress events delivered to the Aggregator
  now,                  \* the clock (datetime.utcnow), in seconds since the UI started
  health,               \* app_state["health"]
  last_received,        \* history: task id -> when the Aggregator last filed an event under it
  fnArg,                \* the argument a function under study is applied to
  fnOut,                \* the results of its successive applications
  running,              \* the node types whose heartbeat loop is running
  threads               \* worker threads inside a handler: worker -> where it stands

pipeVars == <<blobs, jobQ, crawlQ, indexQ, progress, nextId, faults, submitted,
              total_jobs_received, total_crawled, seen_urls, robots_cache,
              es_index, handled, lineage, crawlPublished, announced,
              timedOut, fetches, indexPublished, upserted>>
uiVars == <<tasks, summary, seed_url_to_task, known_task_ids, cbTask, observed,
           delivered>>
timeVars == <<now, health, last_received>>
fnVars == <<fnArg, fnOut>>
vars == <<pipeVars, uiVars, timeVars, fnVars, running, threads>>

\* the crawler processes
Crawlers == {"c1"}

\* None, as the value of an absent identifier (ids start at 1)
NoId == 0
\* UI_STARTUP_TIME, the origin of the clock
UI_STARTUP_TIME == 0
\* GCS_BUCKET_NAME
Bucket == "bucket"

\* the I/O steps of F that fail: at most the run's remaining fault budget
FaultSets(steps) ==
  {F \in SUBSET steps : Cardinality(F) <= MaxFaults - faults}

RECURSIVE SeqToBag(_)
SeqToBag(s) == IF s = <<>> THEN EmptyBag ELSE SetToBag({Head(s)}) (+) SeqToBag(Tail(s))

\* what a handler reports of its invocation: the message, the ack/nack
\* calls made on it in order, the I/O steps that failed, and the source
\* line of the last ack/nack call
Handled(node, m, acks, failed, line) ==
  [node |-> node, msg |-> m, acks |-> acks, failed |-> failed, line |-> line]

(* ------------------------- UI: update_summary_stats ------------------- *)
\* a first pass that leaves every task as it is
ClampTasksNone(ts) == ts

\* first pass of update_summary_stats: clamp indexed_urls to crawled_urls
ClampTasks(ts) ==
  [id \in DOMAIN ts |->
     IF ts[id].indexed_urls > ts[id].crawled_urls
     THEN [ts[id] EXCEPT !.indexed_urls = ts[id].crawled_urls]
     ELSE ts[id]]

RECURSIVE SumOver(_, _, _)
SumOver(ts, ids, field) ==
  IF ids = {} THEN 0
  ELSE LET id == CHOOSE x \in ids : TRUE
       IN  ts[id][field] + SumOver(ts, ids \ {id}, field)

\* second pass of update_summary_stats: the totals
SummaryOf(ts) ==
  [active_tasks    |-> Cardinality({id \in DOMAIN ts : ts[id].status = "in_progress"}),
   completed_tasks |-> Cardinality({id \in DOMAIN ts : ts[id].status = "completed"}),
   failed_tasks    |-> Cardinality({id \in DOMAIN ts : ts[id].status = "failed"}),
   urls_crawled    |-> SumOver(ts, DOMAIN ts, "crawled_urls"),
   urls_indexed    |-> SumOver(ts, DOMAIN ts, "indexed_urls")]

(* ------------------------------ UI: home ------------------------------ *)
\* the task entry home() puts into app_state["tasks"]
HomeTask(task_id, seed_urls, depth, domain) ==
  [task_id |-> task_id, status |-> "submitted",
   crawled_urls |-> 0, indexed_urls |-> 0,
   crawled_urls_list |-> <<>>, indexed_urls_list |-> <<>>,
   progress_events |-> <<"task_submitted">>,
   total_depth |-> depth, current_depth |-> 0,
   seed_urls |-> seed_urls, domain_restriction |-> domain,
   start_time |-> now, last_update |-> now]

\* POST /: upload the job blob, publish the job-submission envelope, enter
\* the task into the local state, update the summary.  A failed upload or
\* publish raises and ends the request.
home(seed_urls, depth, domain, F) ==
  LET task_id  == nextId
      blobPath == <<"crawl_tasks", task_id>>
      job_data == [task_id |-> task_id, seed_urls |-> seed_urls, depth |-> depth,
                   domain_restriction |-> domain]
      pubsub_msg == [task_id |-> task_id,
                     gcs_path |-> <<"gs", Bucket>> \o blobPath,
                     event |-> "task_submitted"]
      uploadOk == <<"upload", 0>> \notin F
      pubOk    == uploadOk /\ <<"publish", 0>> \notin F
      newTasks == (task_id :> HomeTask(task_id, seed_urls, depth, domain)) @@ tasks
  IN  /\ submitted' = submitted + 1
      /\ nextId' = nextId + 1
      /\ faults' = faults + (IF ~uploadOk THEN 1 ELSE IF ~pubOk THEN 1 ELSE 0)
      /\ blobs' = IF uploadOk THEN blobs \cup {[path |-> blobPath, data |-> job_data]}
                  ELSE blobs
      /\ jobQ' = IF pubOk THEN jobQ \cup {pubsub_msg} ELSE jobQ
      /\ lineage' = (task_id :> [job |-> task_id, is_link |-> FALSE, from_depth |-> 0])
                        @@ lineage
      /\ tasks' = IF pubOk THEN ClampTasks(newTasks) ELSE tasks
      /\ summary' = IF pubOk THEN SummaryOf(ClampTasks(newTasks)) ELSE summary
      /\ last_received' = IF pubOk THEN (task_id :> now) @@ last_received
                          ELSE last_received
      /\ UNCHANGED <<fnVars, running, threads, crawlQ, indexQ, progress, total_jobs_received, total_crawled,
                     seen_urls, robots_cache, es_index, handled, crawlPublished,
                     announced, timedOut, fetches, indexPublished, upserted,
                     seed_url_to_task, known_task_ids, cbTask, observed, delivered,
                     now, health>>

HomeSteps == {<<"upload", 0>>, <<"publish", 0>>}

(* ------------------------------- Master ------------------------------- *)
\* the depth limit of a link batch that names none (master_node.py:238)
DefaultDepthLimit == 3

\* the progress event MasterNode.publish_progress_metric publishes
MasterEvent(event_type, extra) ==
  extra @@ [node_type |-> "master", event |-> event_type, timestamp |-> now]

\* the task id publish_crawl_task gives the task: the source job id for a
\* continuation, a fresh uuid4 otherwise
CrawlTaskId(source_job_id, is_continuation, fresh) ==
  IF is_continuation THEN source_job_id ELSE fresh

\* the message MasterNode.publish_crawl_task publishes
CrawlTask(url, depth, domain_restriction, source_job_id, depth_limit, is_continuation, fresh) ==
  [task_id |-> CrawlTaskId(source_job_id, is_continuation, fresh),
   url |-> url, depth |-> depth, depth_limit |-> depth_limit,
   domain_restriction |-> domain_restriction,
   source_job_id |-> source_job_id, is_continuation |-> is_continuation]

\* the blob a gs://bucket/path names, or {} when there is none
BlobsAt(gcs_path) ==
  {b \in blobs : <<"gs", Bucket>> \o b.path = gcs_path}

\* MasterNode.handle_new_job on envelope m, with F the I/O steps that fail.
\* A message or blob that is a JSON object is a record of its fields; any
\* other one is [text |-> its text]: "" (empty), "{" (not JSON), "[]" (JSON
\* but not an object: .get raises AttributeError), "\\xff" (not UTF-8:
\* decode raises UnicodeDecodeError).
\* The result: the ack/nack calls, the crawl tasks published, the progress
\* events published, the steps that failed, the counters' increments.
MasterOutcome(m, F) ==
  LET task_id  == Get(m, "task_id", NoId)
      gcs_path == Get(m, "gcs_path", <<>>)
      is_continuation == Get(m, "is_continuation", FALSE)
      ev1 == IF ~is_continuation
             THEN MasterEvent("job_received", [job_id |-> task_id])
             ELSE MasterEvent("task_continuation",
                              [job_id |-> task_id, url_count |-> Get(m, "url_count", 0)])
      ev1Out == IF <<"progress", 1>> \in F THEN <<>> ELSE <<ev1>>
      fail1  == F \cap {<<"progress", 1>>}
      jobsInc == IF ~is_continuation THEN 1 ELSE 0
      Drop(acks, failed, line) ==
        [acks |-> acks, crawl |-> {}, events |-> ev1Out, failed |-> failed,
         jobsInc |-> jobsInc, crawledInc |-> 0, minted |-> 0, line |-> line]
      Unparsed(acks, line) ==
        [acks |-> acks, crawl |-> {}, events |-> <<>>, failed |-> {},
         jobsInc |-> 0, crawledInc |-> 0, minted |-> 0, line |-> line]
  IN
  IF "text" \in DOMAIN m
  THEN CASE m.text = "" -> Unparsed(<<"ack">>, 161)
         [] m.text = "{" -> Unparsed(<<"ack">>, 167)
         [] OTHER -> Unparsed(<<"nack">>, 282)
  ELSE IF task_id = NoId \/ gcs_path = <<>> THEN Drop(<<"ack">>, fail1, 187)
  ELSE IF gcs_path[1] # "gs" THEN Drop(<<"ack">>, fail1, 194)
  ELSE IF Len(gcs_path) < 3 THEN Drop(<<"ack">>, fail1, 203)
  ELSE IF <<"blob_read", 0>> \in F \/ BlobsAt(gcs_path) = {}
       THEN Drop(<<"nack">>, fail1 \cup (F \cap {<<"blob_read", 0>>}), 282)
  ELSE
  LET job_data == (CHOOSE b \in BlobsAt(gcs_path) : TRUE).data
      isBatch  == "urls" \in DOMAIN job_data
      urls     == IF isBatch THEN Get(job_data, "urls", <<>>)
                  ELSE Get(job_data, "seed_urls", <<>>)
      depth    == IF isBatch THEN job_data.depth ELSE 0
      depth_limit ==
        IF isBatch
        THEN Get(job_data, "depth_limit", Get(job_data, "total_depth", DefaultDepthLimit))
        ELSE job_data.depth
      domain_restriction == Get(job_data, "domain_restriction", None)
      pubFailed == {i \in Idx(urls) : <<"crawl_pub", i>> \in F}
      published ==
        {CrawlTask(urls[i], depth, domain_restriction, task_id, depth_limit,
                   isBatch, nextId + i - 1) : i \in Idx(urls) \ pubFailed}
      ev2 == IF isBatch
             THEN MasterEvent("urls_scheduled",
                    [count |-> Get(job_data, "url_count", Len(urls)), job_id |-> task_id])
             ELSE MasterEvent("url_scheduled", [url |-> urls[1], job_id |-> task_id])
      ev2Out == IF <<"progress", 2>> \in F THEN <<>> ELSE <<ev2>>
  IN
  IF "text" \in DOMAIN job_data
  THEN CASE job_data.text = "" -> Drop(<<"ack">>, fail1, 212)
         [] job_data.text = "{" -> Drop(<<"ack">>, fail1, 279)
         [] OTHER -> Drop(<<"nack">>, fail1, 282)
  ELSE IF urls = <<>> THEN Drop(<<"ack">>, fail1, IF isBatch THEN 228 ELSE 261)
  ELSE [acks |-> <<"ack">>, crawl |-> published, events |-> ev1Out \o ev2Out,
        failed |-> (F \cap {<<"progress", 1>>, <<"progress", 2>>})
                   \cup {<<"crawl_pub", i>> : i \in pubFailed},
        jobsInc |-> jobsInc, crawledInc |-> Len(urls),
        minted |-> IF isBatch THEN 0 ELSE Len(urls),
        line |-> IF isBatch THEN 252 ELSE 275]

\* the I/O steps of one handle_new_job invocation
MasterSteps == {<<"progress", 1>>, <<"blob_read", 0>>, <<"progress", 2>>,
                <<"crawl_pub", 1>>, <<"crawl_pub", 2>>}

\* the subscriber delivers envelope m to handle_new_job
handle_new_job(m, F) ==
  LET out == MasterOutcome(m, F)
      job == lineage[m.task_id]
  IN  /\ m \in jobQ
      /\ out.failed = F
      /\ nextId' = nextId + out.minted
      /\ faults' = faults + Cardinality(F)
      /\ jobQ' = IF out.acks = <<"ack">> THEN jobQ \ {m} ELSE jobQ
      /\ crawlQ' = crawlQ \cup out.crawl
      /\ crawlPublished' = crawlPublished \cup out.crawl
      /\ lineage' = [t \in {c.task_id : c \in out.crawl} |-> job] @@ lineage
      /\ progress' = progress (+) SeqToBag(out.events)
      /\ total_jobs_received' = total_jobs_received + out.jobsInc
      /\ total_crawled' = total_crawled + out.crawledInc
      /\ handled' = Handled("master", m, out.acks, out.failed, out.line)
      /\ UNCHANGED <<fnVars, running, threads, blobs, indexQ, submitted, seen_urls, robots_cache, es_index,
                     announced, timedOut, fetches, indexPublished, upserted, uiVars,
                     timeVars>>

(* ------------------------------- Crawler ------------------------------ *)
\* CrawlerNode.MAX_DEPTH, the depth limit of a task that names none
MAX_DEPTH == 3

\* the progress event CrawlerNode.publish_crawler_metrics publishes
CrawlerEvent(event_type, task_id, extra) ==
  extra @@ [node_type |-> "crawler", task_id |-> task_id, event |-> event_type,
            timestamp |-> now]

\* response.url of a successful GET: the client sends "/" for an empty path
FinalOf(url, p) ==
  IF p.path = <<>> /\ p.query = <<>> /\ p.fragment = <<>> /\ p.netloc # <<>>
  THEN url \o <<"/">>
  ELSE url

FinalUrl(url) == FinalOf(url, urlparse(url))

\* the seen-set test of process_crawl_task (does not hit when the set is
\* asked for the raw URL)
DedupHitRaw(seen, url) == url \in seen

\* the seen-set test of process_crawl_task
DedupHit(seen, url) == normalize_url(url) \in seen

\* the robots.txt rules of a host, as RobotFileParser.read() parses them
RobotsRules(netloc) ==
  IF lower(netloc) \in RobotsDisallowAll THEN "disallow_all" ELSE "allow_all"

\* can_fetch with robots_url the (scheme, netloc) key of the robots cache
CanFetchAt(cache, robots_url, netloc, readFails) ==
  IF robots_url \in DOMAIN cache
  THEN [allowed |-> cache[robots_url] # "disallow_all", cache |-> cache, read |-> FALSE]
  ELSE IF readFails
  THEN [allowed |-> TRUE, cache |-> (robots_url :> "permissive") @@ cache, read |-> TRUE]
  ELSE [allowed |-> RobotsRules(netloc) # "disallow_all",
        cache |-> (robots_url :> RobotsRules(netloc)) @@ cache,
        read |-> TRUE]

RobotsUrl(parsed_url) == <<parsed_url.scheme, parsed_url.netloc>>

\* CrawlerNode.can_fetch: the verdict, the cache after it, and whether
\* robots.txt was fetched
can_fetch(cache, url, readFails) ==
  CanFetchAt(cache, RobotsUrl(urlparse(url)), urlparse(url).netloc, readFails)

\* the link loop of process_crawl_task over the page's <a href> values:
\* the new URLs in order and the seen-set after it
\* whether the link loop keeps new_url
KeepLink(parsed_new_url, normalized_new_url, domain_restriction, seen) ==
  /\ parsed_new_url.scheme \in {<<"http">>, <<"https">>}
  /\ parsed_new_url.netloc # <<>>
  /\ normalized_new_url \notin seen
  /\ ~(/\ domain_restriction # None
       /\ \A i \in Idx(parsed_new_url.netloc) :
            parsed_new_url.netloc[i] # domain_restriction)

RECURSIVE CollectLinks(_, _, _, _, _)
CollectFrom(links, final_url, domain_restriction, seen, new_urls, normalized_new_url, keep) ==
  CollectLinks(Tail(links), final_url, domain_restriction,
               IF keep THEN seen \cup {normalized_new_url} ELSE seen,
               IF keep THEN Append(new_urls, normalized_new_url) ELSE new_urls)

CollectLinks(links, final_url, domain_restriction, seen, new_urls) ==
  IF links = <<>> THEN [new_urls |-> new_urls, seen |-> seen]
  ELSE CollectFrom(links, final_url, domain_restriction, seen, new_urls,
                   normalize_url(urljoin(final_url, Head(links))),
                   KeepLink(urlparse(urljoin(final_url, Head(links))),
                            normalize_url(urljoin(final_url, Head(links))),
                            domain_restriction, seen))

\* CrawlerNode.publish_new_urls_to_master: the blob and the envelope
NewUrlsBlob(new_task_id, new_urls, domain_restriction, depth) ==
  [path |-> <<"new_tasks", new_task_id>>,
   data |-> [seed_urls |-> new_urls, depth |-> depth,
             domain_restriction |-> domain_restriction]]

NewUrlsEnvelope(new_task_id, source_task_id) ==
  [task_id |-> new_task_id,
   gcs_path |-> <<"gs", Bucket, "new_tasks", new_task_id>>]

\* the effects of one process_crawl_task invocation: the ack/nack calls
\* (and the source line of the last one),
\* the seen-set and robots cache after it, the blobs written, the
\* index-tasks and link-batch envelopes published, the progress events
\* published, the I/O steps it ran, the uuids it drew, whether it issued
\* the HTTP GET
CrawlerOut(acks, seen, cache, newBlobs, index, envelopes, events, steps, minted, fetched, line) ==
  [acks |-> acks, seen |-> seen, cache |-> cache, blobs |-> newBlobs,
   index |-> index, envelopes |-> envelopes, events |-> events,
   steps |-> steps, minted |-> minted, fetched |-> fetched, line |-> line]

\* the events of evs (step, event) whose publish does not fail
Published(evs, F) ==
  SelectSeq(evs, LAMBDA e : e[1] \notin F)

EventsOf(evs) == [i \in Idx(evs) |-> evs[i][2]]

RobotsStep(robots) == IF robots.read THEN {<<"robots", 0>>} ELSE {}

RawBlob(content_id, url) ==
  [path |-> <<"raw_html", content_id>>, data |-> [html |-> normalize_url(url)]]

TextBlob(content_id, url) ==
  [path |-> <<"processed_text", content_id>>, data |-> [text |-> normalize_url(url)]]

\* an index task that names the crawl task under task_id
IndexerMessageTaskId(task_id, content_id, url, final_url) ==
  [task_id |-> task_id, content_id |-> content_id,
   original_url |-> url, final_url |-> final_url,
   gcs_processed_path |-> <<"gs", Bucket, "processed_text", content_id>>]

IndexerMessage(task_id, content_id, url, final_url) ==
  [source_task_id |-> task_id, content_id |-> content_id,
   original_url |-> url, final_url |-> final_url,
   gcs_processed_path |-> <<"gs", Bucket, "processed_text", content_id>>]

\* process_crawl_task from the link extraction on (depth < depth_limit):
\* found is the link loop's result
CrawlLinks(m, F, seen1, robots, found) ==
  LET task_id == Get(m, "task_id", NoId)
      domain_restriction == Get(m, "domain_restriction", None)
      content_id == nextId
      new_task_id == nextId + 1
      pageBlobs == {RawBlob(content_id, m.url), TextBlob(content_id, m.url)}
      index == {IndexerMessage(task_id, content_id, m.url, FinalUrl(m.url))}
      crawled == <<<<"progress", 1>>, CrawlerEvent("url_crawled", task_id, [url |-> m.url])>>
      foundEv == <<<<"progress", 2>>,
                   CrawlerEvent("new_urls_found", task_id, [count |-> Len(found.new_urls)])>>
      ran == RobotsStep(robots) \cup
             {<<"save_raw", 0>>, <<"save_text", 0>>, <<"index_pub", 0>>, <<"progress", 1>>}
  IN
  IF found.new_urls = <<>>
  THEN CrawlerOut(<<"ack">>, found.seen, robots.cache, pageBlobs, index, {},
                  EventsOf(Published(<<crawled, foundEv>>, F)),
                  ran \cup {<<"progress", 2>>}, 1, TRUE, 341)
  ELSE IF <<"batch_upload", 0>> \in F
  THEN CrawlerOut(<<"nack">>, found.seen, robots.cache, pageBlobs, index, {},
                  EventsOf(Published(<<crawled>>, F)),
                  ran \cup {<<"batch_upload", 0>>}, 2, TRUE, 353)
  ELSE CrawlerOut(<<"ack">>, found.seen, robots.cache,
                  pageBlobs \cup {NewUrlsBlob(new_task_id, found.new_urls,
                                              domain_restriction, m.depth + 1)},
                  index,
                  IF <<"batch_pub", 0>> \in F THEN {}
                  ELSE {NewUrlsEnvelope(new_task_id, task_id)},
                  EventsOf(Published(<<crawled, foundEv>>, F)),
                  ran \cup {<<"batch_upload", 0>>, <<"batch_pub", 0>>, <<"progress", 2>>},
                  2, TRUE, 341)

\* the depth test with the limit itself counted as below it
BelowLimitInclusive(depth, depth_limit) == depth <= depth_limit

\* whether the links of a page at this depth are followed
BelowLimit(depth, depth_limit) == depth < depth_limit

\* process_crawl_task from the HTML branch on
CrawlHtml(m, F, seen1, robots) ==
  LET task_id == Get(m, "task_id", NoId)
      content_id == nextId
      crawled == <<<<"progress", 1>>, CrawlerEvent("url_crawled", task_id, [url |-> m.url])>>
  IN
  IF <<"save_raw", 0>> \in F
  THEN CrawlerOut(<<"nack">>, seen1, robots.cache, {}, {}, {}, <<>>,
                  RobotsStep(robots) \cup {<<"save_raw", 0>>}, 1, TRUE, 274)
  ELSE IF <<"save_text", 0>> \in F
  THEN CrawlerOut(<<"nack">>, seen1, robots.cache, {RawBlob(content_id, m.url)}, {}, {}, <<>>,
                  RobotsStep(robots) \cup {<<"save_raw", 0>>, <<"save_text", 0>>}, 1, TRUE, 293)
  ELSE IF <<"index_pub", 0>> \in F
  THEN CrawlerOut(<<"nack">>, seen1, robots.cache,
                  {RawBlob(content_id, m.url), TextBlob(content_id, m.url)}, {}, {}, <<>>,
                  RobotsStep(robots) \cup
                    {<<"save_raw", 0>>, <<"save_text", 0>>, <<"index_pub", 0>>}, 1, TRUE, 307)
  ELSE IF BelowLimit(Get(m, "depth", 0), Get(m, "depth_limit", MAX_DEPTH))
  THEN CrawlLinks(m, F, seen1, robots,
                  CollectLinks(Page(m.url).links, FinalUrl(m.url),
                               Get(m, "domain_restriction", None), seen1, <<>>))
  ELSE CrawlerOut(<<"ack">>, seen1, robots.cache,
                  {RawBlob(content_id, m.url), TextBlob(content_id, m.url)},
                  {IndexerMessage(task_id, content_id, m.url, FinalUrl(m.url))}, {},
                  EventsOf(Published(<<crawled>>, F)),
                  RobotsStep(robots) \cup
                    {<<"save_raw", 0>>, <<"save_text", 0>>, <<"index_pub", 0>>,
                     <<"progress", 1>>}, 1, TRUE, 341)

\* the content-type test with every answered page taken for HTML
IsHtmlAny(content_type) == content_type # "error"

\* 'html' in content_type, for the kinds of page the origin servers answer
IsHtml(content_type) == content_type = "html"

\* the except clauses of the fetch with every request error acked
FetchErrorAcksAll(exception) == <<"ack">>

\* the except clauses of the fetch: nack on Timeout, ack on any other
\* RequestException (raise_for_status's HTTPError included)
FetchErrorAcks(exception) == IF exception = "Timeout" THEN <<"nack">> ELSE <<"ack">>

\* process_crawl_task from the robots.txt check on: seen1 is the seen-set
\* with the task's URL added, robots the result of can_fetch
CrawlFetch(m, F, seen1, robots) ==
  LET task_id == Get(m, "task_id", NoId)
      skipped == <<<<"progress", 1>>,
                   CrawlerEvent("url_skipped", task_id,
                                [url |-> m.url, reason |-> "robots_txt"])>>
  IN
  IF ~robots.allowed
  THEN CrawlerOut(<<"ack">>, seen1, robots.cache, {}, {}, {},
                  EventsOf(Published(<<skipped>>, F)),
                  RobotsStep(robots) \cup {<<"progress", 1>>}, 0, FALSE, 240)
  ELSE IF <<"timeout", 0>> \in F
  THEN CrawlerOut(FetchErrorAcks("Timeout"), seen1, robots.cache, {}, {}, {}, <<>>,
                  RobotsStep(robots) \cup {<<"timeout", 0>>}, 0, TRUE, 254)
  ELSE IF <<"request_error", 0>> \in F \/ Page(m.url).kind = "error"
  THEN CrawlerOut(FetchErrorAcks("RequestException"), seen1, robots.cache, {}, {}, {}, <<>>,
                  RobotsStep(robots) \cup {<<"request_error", 0>>}, 0, TRUE, 258)
  ELSE IF ~IsHtml(Page(m.url).kind)
  THEN CrawlerOut(<<"ack">>, seen1, robots.cache, {}, {}, {}, <<>>,
                  RobotsStep(robots), 0, TRUE, 346)
  ELSE CrawlHtml(m, F, seen1, robots)

\* process_crawl_task on a payload that is not a JSON object.  Text that is
\* not JSON raises JSONDecodeError and is acked.  "[]" (.get raises
\* AttributeError) and "\\xff" (decode raises UnicodeDecodeError) reach
\* `except Exception`, whose log line formats task_id before task_id is
\* bound: UnboundLocalError leaves the handler before message.nack().
CrawlerUnparsed(c, m) ==
  IF m.text \in {"", "{"}
  THEN CrawlerOut(<<"ack">>, seen_urls[c], robots_cache[c], {}, {}, {}, <<>>, {}, 0, FALSE, 350)
  ELSE CrawlerOut(<<>>, seen_urls[c], robots_cache[c], {}, {}, {}, <<>>, {}, 0, FALSE, 352)

\* CrawlerNode.process_crawl_task of crawler c on task m, with F the I/O
\* steps that fail
CrawlerOutcome(c, m, F) ==
  IF "text" \in DOMAIN m THEN CrawlerUnparsed(c, m)
  ELSE IF InvalidUrl(m.url)
  THEN CrawlerOut(<<"ack">>, seen_urls[c], robots_cache[c], {}, {}, {}, <<>>, {}, 0, FALSE, 219)
  ELSE IF DedupHit(seen_urls[c], m.url)
  THEN CrawlerOut(<<"ack">>, seen_urls[c], robots_cache[c], {}, {}, {}, <<>>, {}, 0, FALSE, 225)
  ELSE CrawlFetch(m, F, seen_urls[c] \cup {normalize_url(m.url)},
                  can_fetch(robots_cache[c], m.url, <<"robots", 0>> \in F))

\* the I/O steps of one process_crawl_task invocation
CrawlerSteps == {<<"robots", 0>>, <<"timeout", 0>>, <<"request_error", 0>>,
                 <<"save_raw", 0>>, <<"save_text", 0>>, <<"index_pub", 0>>,
                 <<"progress", 1>>, <<"batch_upload", 0>>, <<"batch_pub", 0>>,
                 <<"progress", 2>>}

\* what an invocation of process_crawl_task of crawler c on crawl task m
\* with outcome out does to the state outside the worker threads
CrawlerEffect(c, m, F, out) ==
  LET parent == lineage[m.task_id]
  IN  /\ m \in crawlQ
      /\ F \subseteq out.steps
      /\ nextId' = nextId + out.minted
      /\ faults' = faults + Cardinality(F)
      /\ crawlQ' = IF out.acks = <<"ack">> THEN crawlQ \ {m} ELSE crawlQ
      /\ seen_urls' = [seen_urls EXCEPT ![c] = out.seen]
      /\ robots_cache' = [robots_cache EXCEPT ![c] = out.cache]
      /\ blobs' = blobs \cup out.blobs
      /\ indexQ' = indexQ \cup out.index
      /\ indexPublished' = indexPublished \cup out.index
      /\ jobQ' = jobQ \cup out.envelopes
      /\ progress' = progress (+) SeqToBag(out.events)
      /\ announced' = announced \cup
           {[msg |-> e, parent_task_id |-> m.task_id] : e \in out.envelopes}
      /\ lineage' = [t \in {e.task_id : e \in out.envelopes} |->
                       [job |-> parent.job, is_link |-> TRUE, from_depth |-> m.depth]]
                    @@ lineage
      /\ timedOut' = IF <<"timeout", 0>> \in F THEN timedOut \cup {m} ELSE timedOut
      /\ fetches' = IF out.fetched THEN fetches (+) SetToBag({normalize_url(m.url)})
                    ELSE fetches
      /\ handled' = Handled("crawler", m, out.acks, F, out.line)
      /\ UNCHANGED <<fnVars, running, submitted, total_jobs_received, total_crawled, es_index,
                     crawlPublished, upserted, uiVars, timeVars>>

\* the subscriber delivers crawl task m to process_crawl_task of crawler c
process_crawl_task(c, m, F) ==
  /\ CrawlerEffect(c, m, F, CrawlerOutcome(c, m, F))
  /\ UNCHANGED threads

(* ------------------------------- Indexer ------------------------------ *)
\* the progress event IndexerNode.publish_progress_metric publishes
IndexerEvent(event_type, task_id, url, extra) ==
  extra
  @@ ([node_type |-> "indexer", event |-> event_type, timestamp |-> now]
        @@ (IF task_id # NoId THEN [task_id |-> task_id] ELSE <<>>)
        @@ (IF url # <<>> THEN [url |-> url] ELSE <<>>))

\* the document id a mis-keyed upsert would use: a new one when the URL is
\* already indexed
index_documentNewId(index, url, content) ==
  ((IF url \in DOMAIN index THEN url \o <<"#", "2">> ELSE url)
     :> [url |-> url, content |-> content]) @@ index

\* the index after es_client.index(id=url, document={url, content})
index_document(index, url, content) ==
  (url :> [url |-> url, content |-> content]) @@ index

\* the effective URL of an index task: final_url or original_url
EffectiveUrl(m) ==
  IF Get(m, "final_url", <<>>) # <<>> THEN m.final_url
  ELSE Get(m, "original_url", <<>>)

\* whether index_document takes the result of the upsert for a success
\* (a failure only for results other than created and updated)
UpsertOkAny(result) == TRUE

\* whether index_document takes the result of the upsert for a success
UpsertOk(result) == result \in {"created", "updated"}

\* an index service that changes nothing at any upsert
UpsertResultsNoop == {"noop"}

\* the results the index service gives an upsert it has carried out
UpsertResults == {"created", "updated", "noop"}

\* IndexerNode.process_indexing_task on index task m, with F the I/O steps
\* that fail and result the index service's answer: the ack/nack calls, the
\* index after it, the events published
IndexerOutcome(m, F, result) ==
  LET url == EffectiveUrl(m)
      gcs_path   == Get(m, "gcs_processed_path", <<>>)
      content_id == Get(m, "content_id", NoId)
      Out(acks, index, events, failed, line) ==
        [acks |-> acks, index |-> index, events |-> events, failed |-> F \cap failed,
         line |-> line]
  IN
  IF "text" \in DOMAIN m
  THEN IF m.text \in {"", "{"} THEN Out(<<"ack">>, es_index, <<>>, {}, 204)
       ELSE Out(<<"nack">>, es_index, <<>>, {}, 207)
  ELSE IF url = <<>> THEN Out(<<"ack">>, es_index, <<>>, {}, 168)
  ELSE IF gcs_path = <<>> THEN Out(<<"ack">>, es_index, <<>>, {}, 176)
  ELSE IF Len(gcs_path) < 3 \/ SubSeq(gcs_path, 1, 2) # <<"gs", Bucket>>
  THEN Out(<<"ack">>, es_index, <<>>, {}, 185)
  ELSE IF <<"blob_read", 0>> \in F \/ BlobsAt(gcs_path) = {}
  THEN Out(<<"nack">>, es_index, <<>>, {<<"blob_read", 0>>}, 192)
  ELSE IF <<"es_index", 0>> \in F
  THEN Out(<<"nack">>, es_index, <<>>, {<<"blob_read", 0>>, <<"es_index", 0>>}, 201)
  ELSE
  LET processed_text == (CHOOSE b \in BlobsAt(gcs_path) : TRUE).data
      ev  == IndexerEvent("url_indexed", Get(m, "source_task_id", NoId), url,
                          [content_id |-> content_id])
  IN  IF ~UpsertOk(result)
      THEN Out(<<"nack">>, index_document(es_index, url, processed_text), <<>>,
               {<<"blob_read", 0>>, <<"es_index", 0>>}, 201)
      ELSE Out(<<"ack">>, index_document(es_index, url, processed_text),
               IF <<"progress", 1>> \in F THEN <<>> ELSE <<ev>>,
               {<<"blob_read", 0>>, <<"es_index", 0>>, <<"progress", 1>>}, 196)

\* the I/O steps of one process_indexing_task invocation
IndexerSteps == {<<"blob_read", 0>>, <<"es_index", 0>>, <<"progress", 1>>}

\* the subscriber delivers index task m to process_indexing_task
process_indexing_task(m, F, result) ==
  LET out == IndexerOutcome(m, F, result)
      upsertRan == out.line = 196 \/ (out.line = 201 /\ <<"es_index", 0>> \notin F)
  IN  /\ m \in indexQ
      /\ out.failed = F
      /\ faults' = faults + Cardinality(F)
      /\ indexQ' = IF out.acks = <<"ack">> THEN indexQ \ {m} ELSE indexQ
      /\ es_index' = out.index
      /\ upserted' = IF upsertRan THEN upserted \cup {m} ELSE upserted
      /\ progress' = progress (+) SeqToBag(out.events)
      /\ handled' =
           [result |-> IF upsertRan THEN result ELSE "none",
            again |-> upsertRan /\ m \in upserted]
             @@ Handled("indexer", m, out.acks, out.failed, out.line)
      /\ UNCHANGED <<fnVars, running, threads, blobs, jobQ, crawlQ, nextId, submitted, total_jobs_received,
                     total_crawled, seen_urls, robots_cache, lineage, crawlPublished,
                     announced, timedOut, fetches, indexPublished, uiVars, timeVars>>

(* --------------------------- specification ---------------------------- *)
InitOutside ==
  /\ running = {}
  /\ threads = <<>>
  /\ blobs = {}
  /\ jobQ = {}
  /\ crawlQ = {}
  /\ indexQ = {}
  /\ progress = EmptyBag
  /\ nextId = 1
  /\ faults = 0
  /\ submitted = 0
  /\ total_jobs_received = 0
  /\ total_crawled = 0
  /\ seen_urls = [c \in Crawlers |-> {}]
  /\ robots_cache = [c \in Crawlers |-> <<>>]
  /\ es_index = <<>>
  /\ handled = Handled("none", <<>>, <<>>, {}, 0)
  /\ lineage = <<>>
  /\ crawlPublished = {}
  /\ announced = {}
  /\ timedOut = {}
  /\ fetches = EmptyBag
  /\ indexPublished = {}
  /\ upserted = {}
  /\ seed_url_to_task = <<>>
  /\ cbTask = NoId
  /\ observed = <<>>
  /\ delivered = 0
  /\ now = UI_STARTUP_TIME
  /\ health = [n \in {"master", "crawler", "indexer"} |->
                [status |-> "unknown"]]

\* the state after construction: no task is tracked
InitState ==
  /\ InitOutside
  /\ tasks = <<>>
  /\ summary = [active_tasks |-> 0, completed_tasks |-> 0, failed_tasks |-> 0,
                urls_crawled |-> 0, urls_indexed |-> 0]
  /\ known_task_ids = {}
  /\ last_received = <<>>

Init ==
  /\ InitState
  /\ fnArg = <<>>
  /\ fnOut = <<>>

Submit ==
  \E in \in JobInputs : \E F \in FaultSets(HomeSteps) :
    submitted < MaxJobs /\ home(in[1], in[2], in[3], F)

MasterStep ==
  \E m \in jobQ : \E F \in FaultSets(MasterSteps) : handle_new_job(m, F)

CrawlerStep ==
  \E c \in Crawlers : \E m \in crawlQ : \E F \in FaultSets(CrawlerSteps) :
    process_crawl_task(c, m, F)

IndexerStep ==
  \E m \in indexQ : \E F \in FaultSets(IndexerSteps) : \E result \in UpsertResults :
    process_indexing_task(m, F, result)

Next == Submit \/ MasterStep \/ CrawlerStep \/ IndexerStep

\* the pipeline when no I/O step fails
SubmitOk ==
  \E in \in JobInputs : submitted < MaxJobs /\ home(in[1], in[2], in[3], {})

MasterOk == \E m \in jobQ : handle_new_job(m, {})

CrawlerOk == \E c \in Crawlers : \E m \in crawlQ : process_crawl_task(c, m, {})

IndexerOk ==
  \E m \in indexQ : \E result \in UpsertResults : process_indexing_task(m, {}, result)

NextLive == SubmitOk \/ MasterOk \/ CrawlerOk \/ IndexerOk

\* a crawl task leaves the crawl subscription: the crawler was handed it
\* and has acked it
CrawlTaskTaken == \E m \in crawlQ : crawlQ' = crawlQ \ {m}

\* the pipeline with one crawler and no I/O failure, every subscriber
\* being handed the messages that wait for it
SpecLive ==
  /\ Init /\ [][NextLive]_vars
  /\ WF_vars(MasterOk) /\ WF_crawlQ(CrawlTaskTaken) /\ WF_vars(IndexerOk)

\* the index service carries out the upsert of an index task
IndexerDone ==
  \E m \in indexQ : \E result \in {r \in UpsertResults : UpsertOk(r)} :
    process_indexing_task(m, {}, result)

\* the pipeline with at most MaxFaults I/O failures, every subscriber being
\* handed the messages that wait for it and no failure lasting for ever
SpecQuiet ==
  /\ Init /\ [][Next]_vars
  /\ WF_vars(MasterOk) /\ WF_crawlQ(CrawlTaskTaken) /\ WF_vars(IndexerDone)

\* page p of host a with the host in upper case
UPalt == <<"http", "://", "A", "/", "p">>

\* seed lists whose URLs are pages of one host
HostSeedLists == {<<UA, UE>>, <<UE, UPalt>>, <<UC, UB>>}

SubmitHosts ==
  \E seed_urls \in HostSeedLists : \E domain \in Domains :
    submitted < MaxJobs /\ home(seed_urls, 0, domain, {})

\* a crawl task is handled; the fetch of robots.txt may fail
RobotsCrawlerStep ==
  \E c \in Crawlers : \E m \in crawlQ : \E F \in FaultSets({<<"robots", 0>>}) :
    process_crawl_task(c, m, F)

\* one crawler process handling the pages of a host one after the other
NextRobots == SubmitHosts \/ MasterOk \/ RobotsCrawlerStep \/ IndexerOk
SpecRobots == Init /\ [][NextRobots]_vars

\* the worker threads of the subscriber's callback pool in a crawler process
Workers == {"w1", "w2"}

\* the crawl tasks some worker is handling
Held == {threads[w].msg : w \in DOMAIN threads}

\* process_crawl_task in worker w of crawler c, up to the test of the
\* seen-set: a task that is invalid or already seen is acked, any other
\* leaves the worker before the insert into the seen-set
seen_test(c, w, m) ==
  /\ w \notin DOMAIN threads
  /\ m \in crawlQ \ Held
  /\ IF InvalidUrl(m.url) \/ DedupHit(seen_urls[c], m.url)
     THEN /\ CrawlerEffect(c, m, {}, CrawlerOutcome(c, m, {}))
          /\ UNCHANGED threads
     ELSE /\ threads' = (w :> [crawler |-> c, msg |-> m, line |-> 227]) @@ threads
          /\ UNCHANGED <<fnVars, running, pipeVars, uiVars, timeVars>>

\* process_crawl_task in worker w from the insert into the seen-set on
seen_add(w) ==
  /\ w \in DOMAIN threads
  /\ LET c == threads[w].crawler
         m == threads[w].msg
     IN  CrawlerEffect(c, m, {},
                       CrawlFetch(m, {}, seen_urls[c] \cup {normalize_url(m.url)},
                                  can_fetch(robots_cache[c], m.url, FALSE)))
  /\ threads' = [v \in DOMAIN threads \ {w} |-> threads[v]]

WorkerTest == \E c \in Crawlers : \E w \in Workers : \E m \in crawlQ : seen_test(c, w, m)
WorkerAdd == \E w \in Workers : seen_add(w)

\* one crawler process whose callback pool has the workers of Workers
NextWorkers == SubmitOk \/ MasterOk \/ WorkerTest \/ WorkerAdd
SpecWorkers == Init /\ [][NextWorkers]_vars

\* the crawler processes that can be started besides those of Crawlers
MoreCrawlers == {"c2"}

\* CrawlerNode.__init__ of a further crawler process c
start_crawler(c) ==
  /\ c \notin DOMAIN seen_urls
  /\ seen_urls' = (c :> {}) @@ seen_urls
  /\ robots_cache' = (c :> <<>>) @@ robots_cache
  /\ UNCHANGED <<fnVars, running, threads, blobs, jobQ, crawlQ, indexQ, progress, nextId, faults,
                 submitted, total_jobs_received, total_crawled, es_index, handled,
                 lineage, crawlPublished, announced, timedOut, fetches,
                 indexPublished, upserted, uiVars, timeVars>>

StartCrawlerStep == \E c \in MoreCrawlers : start_crawler(c)

\* any running crawler process is handed a crawl task
PoolCrawlerOk ==
  \E c \in DOMAIN seen_urls : \E m \in crawlQ : process_crawl_task(c, m, {})

NextPool == SubmitOk \/ StartCrawlerStep \/ MasterOk \/ PoolCrawlerOk

\* Master and several crawler processes, without I/O failure (the index
\* tasks wait on their subscription)
SpecPool == Init /\ [][NextPool]_vars

\* a depth limit that lets the links of linked pages be followed
DeepDepth == 2

\* the form posts a job with depth limit DeepDepth
SubmitDeep ==
  \E seed_urls \in SeedLists : \E domain \in Domains :
    submitted < MaxJobs /\ home(seed_urls, DeepDepth, domain, {})

NextDeep == SubmitDeep \/ MasterOk \/ CrawlerOk \/ IndexerOk

\* the pipeline, without I/O failure, on a job of depth DeepDepth
SpecDeep == Init /\ [][NextDeep]_vars

\* number of malformed job submissions delivered to Master, and the number
\* of jobs Master receives, redeliveries included
MaxMalformed == 2
MaxDeliveries == 3

\* malformed job submissions: the envelope and the blob it refers to, if any
MalformedJobs ==
  {[env |-> [text |-> ""], blobs |-> {}],
   [env |-> [text |-> "{"], blobs |-> {}],
   [env |-> [gcs_path |-> <<"gs", Bucket, "crawl_tasks", 1>>], blobs |-> {}],
   [env |-> [task_id |-> 1], blobs |-> {}],
   [env |-> [task_id |-> 1, gcs_path |-> <<"http", Bucket, "crawl_tasks", 1>>], blobs |-> {}],
   [env |-> [task_id |-> 1, gcs_path |-> <<"gs", Bucket>>], blobs |-> {}],
   [env |-> [text |-> "[]"], blobs |-> {}],
   [env |-> [text |-> "\\xff"], blobs |-> {}],
   [env |-> [task_id |-> 1, gcs_path |-> <<"gs", Bucket, "crawl_tasks", 1>>],
    blobs |-> {[path |-> <<"crawl_tasks", 1>>, data |-> [text |-> ""]]}],
   [env |-> [task_id |-> 2, gcs_path |-> <<"gs", Bucket, "crawl_tasks", 2>>],
    blobs |-> {[path |-> <<"crawl_tasks", 2>>, data |-> [text |-> "{"]]}],
   [env |-> [task_id |-> 3, gcs_path |-> <<"gs", Bucket, "crawl_tasks", 3>>],
    blobs |-> {[path |-> <<"crawl_tasks", 3>>,
                data |-> [seed_urls |-> <<>>, depth |-> 1, domain_restriction |-> None]]}],
   [env |-> [task_id |-> 4, gcs_path |-> <<"gs", Bucket, "new_tasks", 4>>,
             is_continuation |-> TRUE],
    blobs |-> {[path |-> <<"new_tasks", 4>>,
                data |-> [urls |-> <<>>, depth |-> 1, domain_restriction |-> None]]}]}

\* a malformed job submission arrives on Master's subscription
publish_malformed(job) ==
  /\ submitted < MaxMalformed
  /\ jobQ = {}
  /\ submitted' = submitted + 1
  /\ jobQ' = {job.env}
  /\ blobs' = blobs \cup job.blobs
  /\ UNCHANGED <<fnVars, running, threads, crawlQ, indexQ, progress, nextId, faults, total_jobs_received,
                 total_crawled, seen_urls, robots_cache, es_index, handled, lineage,
                 crawlPublished, announced, timedOut, fetches, indexPublished, upserted,
                 uiVars, timeVars>>

MalformedStep == \E job \in MalformedJobs : publish_malformed(job)

\* Master handles an envelope, up to MaxDeliveries jobs received
BoundedMasterStep ==
  \E m \in jobQ : \E F \in FaultSets(MasterSteps) :
    total_jobs_received < MaxDeliveries /\ handle_new_job(m, F)

NextMaster == MalformedStep \/ BoundedMasterStep

\* Master alone, fed malformed job submissions
SpecMaster == Init /\ [][NextMaster]_vars

\* payloads that are not JSON objects: empty, not JSON, a JSON list, not UTF-8
UnparsedPayloads == {[text |-> ""], [text |-> "{"], [text |-> "[]"], [text |-> "\\xff"]}

\* a payload that is not a JSON object arrives on the crawl-task or on the
\* index-task subscription
publish_payload(topic, p) ==
  /\ submitted < MaxMalformed
  /\ crawlQ = {} /\ indexQ = {}
  /\ submitted' = submitted + 1
  /\ crawlQ' = IF topic = "crawl" THEN {p} ELSE crawlQ
  /\ indexQ' = IF topic = "index" THEN {p} ELSE indexQ
  /\ UNCHANGED <<fnVars, running, threads, blobs, jobQ, progress, nextId, faults,
                 total_jobs_received, total_crawled, seen_urls, robots_cache, es_index,
                 handled, lineage, crawlPublished, announced, timedOut, fetches,
                 indexPublished, upserted, uiVars, timeVars>>

PayloadStep ==
  \E topic \in {"crawl", "index"} : \E p \in UnparsedPayloads : publish_payload(topic, p)

NextPayloads ==
  MalformedStep \/ PayloadStep \/ BoundedMasterStep \/ CrawlerStep \/ IndexerStep

\* Master, Crawler and Indexer fed malformed messages
SpecPayloads == Init /\ [][NextPayloads]_vars

Spec == Init /\ [][Next]_vars

(* ----------------------- Properties of the pipeline ------------------- *)
\* C1: every crawl task Master publishes for a job J, for J's seed URLs and
\* for every link batch transitively discovered from J, carries task_id
\* equal to J's job id.
C1_CrawlTaskCarriesJobId ==
  \A t \in crawlPublished : t.task_id = lineage[t.task_id].job

\* a seed job has been expanded by Master into crawl tasks
C1_SeedTasksPublished ==
  \E t \in crawlPublished : ~lineage[t.task_id].is_link

\* C2: the envelope the Crawler publishes for a link batch has task_id equal
\* to the task_id of the crawl task being processed and is_continuation
\* true; no fresh id is minted for a link batch.
C2_LinkBatchReusesParentTaskId ==
  \A a \in announced :
    /\ a.msg.task_id = a.parent_task_id
    /\ Get(a.msg, "is_continuation", FALSE) = TRUE

\* a crawler has announced a link batch to Master
C2_LinkBatchAnnounced == announced # {}

\* C3: every crawl task Master publishes, for a seed job or for a link
\* batch, satisfies 0 <= depth <= depth_limit.
C3_DepthWithinLimit ==
  \A t \in crawlPublished : 0 <= t.depth /\ t.depth <= t.depth_limit

\* Master has published the seed tasks of a job submitted with depth limit -1
C3_NegativeLimitSubmitted ==
  \E t \in crawlPublished : ~lineage[t.task_id].is_link /\ t.depth_limit = -1

\* C4: every crawl task Master emits for a link discovered on a page that
\* was processed at depth d < depth_limit has depth d + 1.
C4_LinkTaskOneDeeper ==
  \A t \in crawlPublished :
    lineage[t.task_id].is_link => t.depth = lineage[t.task_id].from_depth + 1

\* Master has emitted a crawl task for a link discovered on a page
C4_LinkTaskPublished ==
  \E t \in crawlPublished : lineage[t.task_id].is_link

\* the url_crawled events published about url
CrawledEventsOf(url) ==
  {e \in BagToSet(progress) : e.event = "url_crawled" /\ Get(e, "url", <<>>) = url}

\* C5: a crawl task for an HTML page whose fetch timed out and was nacked,
\* once redelivered to the same crawler and settled, has been fetched a
\* second time and has produced exactly one url_crawled event and exactly
\* one index task, with its URL in the seen-set.
C5_TimedOutTaskRefetched ==
  \A m \in timedOut :
    (m \notin crawlQ /\ Page(m.url).kind = "html") =>
      /\ CopiesIn(normalize_url(m.url), fetches) = 2
      /\ \E e \in CrawledEventsOf(m.url) :
           CrawledEventsOf(m.url) = {e} /\ CopiesIn(e, progress) = 1
      /\ Cardinality({i \in indexPublished : i.original_url = m.url}) = 1
      /\ \E c \in Crawlers : normalize_url(m.url) \in seen_urls[c]

\* a task that timed out has been redelivered and settled
C5_TimedOutTaskSettled ==
  \E m \in timedOut : m \notin crawlQ /\ Page(m.url).kind = "html"

\* C6: a crawl task whose normalised URL is already in the crawler's
\* seen-set is acked with no side effects: no fetch, no blob write, no index
\* task, no link batch, no progress event, and the seen-set is unchanged.
C6_SeenTaskAckedWithoutEffects ==
  [][\A c \in Crawlers : \A m \in crawlQ : \A F \in FaultSets(CrawlerSteps) :
       (/\ process_crawl_task(c, m, F)
        /\ ~InvalidUrl(m.url)
        /\ normalize_url(m.url) \in seen_urls[c])
       => /\ m \notin crawlQ'
          /\ handled'.acks = <<"ack">>
          /\ UNCHANGED <<blobs, jobQ, indexQ, indexPublished, progress, seen_urls,
                         robots_cache, fetches, announced, es_index, nextId>>]_vars

\* a crawler has just dropped a task whose URL, written differently from the
\* one crawled before, normalises to a member of its seen-set
C6_SeenTaskDropped ==
  /\ handled.node = "crawler"
  /\ handled.line = 225
  /\ handled.acks = <<"ack">>
  /\ handled.msg \notin crawlQ
  /\ handled.msg.url \notin seen_urls["c1"]
  /\ normalize_url(handled.msg.url) \in seen_urls["c1"]

\* Master's I/O steps whose failure the envelope must not be acked after
MasterMustSucceed == {<<"blob_read", 0>>, <<"crawl_pub", 1>>, <<"crawl_pub", 2>>}

\* C7: Master acks a job-submission envelope only after every crawl-task
\* publish for it succeeded; if a crawl-task publish or the blob read fails,
\* the envelope is nacked and not acked.
C7_MasterAcksOnlyAfterPublishes ==
  (handled.node = "master" /\ handled.failed \cap MasterMustSucceed # {})
    => handled.acks = <<"nack">>

\* Master has just handled an envelope with a failed crawl-task publish
C7_CrawlPublishFailed ==
  /\ handled.node = "master"
  /\ \E i \in 1..2 : <<"crawl_pub", i>> \in handled.failed

\* the Crawler's I/O steps whose failure an HTML task must not be acked after
CrawlerMustSucceed == {<<"save_raw", 0>>, <<"save_text", 0>>, <<"index_pub", 0>>,
                       <<"batch_upload", 0>>, <<"batch_pub", 0>>}

\* C8: the Crawler acks a crawl task for an HTML page only after the raw
\* write, the text write, the index-task publish and, below the depth limit,
\* the link-batch blob write and its announcement succeeded; if one of these
\* fails the task is nacked.
C8_CrawlerAcksOnlyAfterEffects ==
  (handled.node = "crawler" /\ handled.failed \cap CrawlerMustSucceed # {})
    => handled.acks = <<"nack">>

\* a crawler has just handled an HTML task whose link-batch announcement failed
C8_AnnouncementFailed ==
  /\ handled.node = "crawler"
  /\ <<"batch_pub", 0>> \in handled.failed


(* --------------------- Aggregator: progress callback ------------------ *)
\* str order of the tokens this model's URLs are made of
TokenOrder == <<"#", "/", ":", "://", "?", "A", "P", "a", "b", "c", "e",
                "http", "mailto", "p", "top", "x">>

TokenRank(t) == CHOOSE i \in Idx(TokenOrder) : TokenOrder[i] = t

\* u <= v as python compares the two strings
RECURSIVE StrLeq(_, _)
StrLeq(u, v) ==
  IF u = <<>> THEN TRUE
  ELSE IF v = <<>> THEN FALSE
  ELSE IF Head(u) = Head(v) THEN StrLeq(Tail(u), Tail(v))
  ELSE TokenRank(Head(u)) < TokenRank(Head(v))

RECURSIVE InsertSorted(_, _)
InsertSorted(x, s) ==
  IF s = <<>> THEN <<x>>
  ELSE IF StrLeq(x, Head(s)) THEN <<x>> \o s
  ELSE <<Head(s)>> \o InsertSorted(x, Tail(s))

\* tuple(sorted(seed_urls))
RECURSIVE sorted(_)
sorted(s) == IF s = <<>> THEN <<>> ELSE InsertSorted(Head(s), sorted(Tail(s)))

\* the id the callback files an event under: task_id or job_id, and for a
\* job_received event of Master the job_id, or the task already registered
\* under the same sorted seed URLs
CallbackTaskId(data) ==
  LET given == IF Get(data, "task_id", NoId) # NoId THEN data.task_id
               ELSE Get(data, "job_id", NoId)
  IN  IF given = NoId THEN NoId
      ELSE IF Get(data, "node_type", None) = "master" /\ data.event = "job_received"
      THEN IF /\ Get(data, "seed_urls", <<>>) # <<>>
              /\ sorted(data.seed_urls) \in DOMAIN seed_url_to_task
              /\ seed_url_to_task[sorted(data.seed_urls)] \in DOMAIN tasks
           THEN seed_url_to_task[sorted(data.seed_urls)]
           ELSE Get(data, "job_id", NoId)
      ELSE given

\* app_state["seed_url_to_task"] after the callback filed data under task_id
SeedMapAfter(data, task_id) ==
  IF Get(data, "seed_urls", <<>>) = <<>> THEN seed_url_to_task
  ELSE (IF data.event = "task_started" \/ task_id \notin DOMAIN tasks
        THEN sorted(data.seed_urls) :> task_id ELSE <<>>)
       @@ (IF /\ Get(data, "node_type", None) = "master"
              /\ data.event = "job_received"
              /\ sorted(data.seed_urls) \notin DOMAIN seed_url_to_task
           THEN sorted(data.seed_urls) :> Get(data, "job_id", NoId) ELSE <<>>)
       @@ seed_url_to_task

\* data.get("timestamp") or datetime.utcnow()
Timestamp(data) == Get(data, "timestamp", now)

\* the entry the callback creates for a task id it does not know
NewTask(task_id, data) ==
  [task_id |-> task_id,
   status |-> IF data.event = "job_received" THEN "submitted" ELSE "in_progress",
   crawled_urls |-> 0, indexed_urls |-> 0,
   crawled_urls_list |-> <<>>, indexed_urls_list |-> <<>>,
   progress_events |-> <<>>,
   total_depth |-> Get(data, "depth", 1), current_depth |-> 0,
   seed_urls |-> Get(data, "seed_urls", <<>>),
   domain_restriction |-> Get(data, "domain_restriction", None),
   start_time |-> Timestamp(data), last_update |-> Timestamp(data)]

\* list with url appended unless it is absent or already in the list
AppendNew(list, url) ==
  IF url = <<>> \/ (\E i \in Idx(list) : list[i] = url) THEN list
  ELSE Append(list, url)

\* submitted becomes in_progress at the first crawled or indexed URL
Started(status) == IF status = "submitted" THEN "in_progress" ELSE status

\* the event-specific update of the callback
EventUpdate(task, data) ==
  CASE data.event = "task_started" ->
         [continuations |-> 0]
           @@ [task EXCEPT !.status = "in_progress",
                           !.start_time = Timestamp(data),
                           !.total_depth = Get(data, "depth", @),
                           !.seed_urls = Get(data, "seed_urls", @),
                           !.domain_restriction = Get(data, "domain_restriction", @)]
    [] data.event = "task_continuation" ->
         [continuations |-> Get(task, "continuations", 0) + 1,
          continuation_details |->
            Append(Get(task, "continuation_details", <<>>), Get(data, "url_count", 0))]
           @@ task
    [] data.event \in {"url_crawled", "crawled"} ->
         [task EXCEPT !.crawled_urls = @ + 1,
                      !.crawled_urls_list = AppendNew(@, Get(data, "url", <<>>)),
                      !.current_depth =
                         IF "depth" \in DOMAIN data /\ data.depth > @
                         THEN data.depth ELSE @,
                      !.status = Started(@)]
    [] data.event \in {"url_indexed", "indexed"} ->
         [task EXCEPT !.indexed_urls = @ + 1,
                      !.indexed_urls_list = AppendNew(@, Get(data, "url", <<>>)),
                      !.status = Started(@)]
    [] data.event = "depth_complete" ->
         IF "depth" \in DOMAIN data THEN [depth_complete |-> data.depth] @@ task
         ELSE task
    [] data.event = "task_completed" ->
         [end_time |-> Timestamp(data)] @@ [task EXCEPT !.status = "completed"]
    [] data.event = "task_failed" ->
         [end_time |-> Timestamp(data), error |-> Get(data, "error", "Unknown error")]
           @@ [task EXCEPT !.status = "failed"]
    [] OTHER -> task

\* the length above which the callback cuts a list, and what it keeps
ListLimit == 100
KeepFirst == 10
KeepLast == 40

\* the clean-up keeping the oldest items only
TrimListOldest(list) ==
  IF Len(list) > ListLimit THEN SubSeq(list, 1, KeepFirst + KeepLast) ELSE list

\* list[:10] + list[-40:] of a list longer than 100
TrimList(list) ==
  IF Len(list) > ListLimit
  THEN SubSeq(list, 1, KeepFirst) \o SubSeq(list, Len(list) - KeepLast + 1, Len(list))
  ELSE list

TrimLists(task) ==
  [task EXCEPT !.crawled_urls_list = TrimList(@),
               !.indexed_urls_list = TrimList(@),
               !.progress_events = TrimList(@)]

\* task with the event put on its timeline
Timeline(task, data) ==
  [task EXCEPT !.last_update = Timestamp(data),
               !.progress_events = Append(@, data.event)]

\* the entry of task_id with the event put on its timeline
WithEvent(task_id, data) ==
  Timeline(IF task_id \in DOMAIN tasks THEN tasks[task_id] ELSE NewTask(task_id, data),
           data)

\* listen_to_progress.callback up to its call of update_summary_stats: an
\* event without task id is acked and dropped, any other is filed under its
\* task
callback(data) ==
  /\ cbTask = NoId
  /\ delivered' = delivered + 1
  /\ IF CallbackTaskId(data) = NoId
     THEN UNCHANGED <<tasks, seed_url_to_task, known_task_ids, cbTask>>
     ELSE /\ tasks' = (CallbackTaskId(data) :>
                         TrimLists(EventUpdate(WithEvent(CallbackTaskId(data), data), data)))
                      @@ tasks
          /\ seed_url_to_task' = SeedMapAfter(data, CallbackTaskId(data))
          /\ known_task_ids' = IF CallbackTaskId(data) \in DOMAIN tasks
                               THEN known_task_ids
                               ELSE known_task_ids \cup {CallbackTaskId(data)}
          /\ cbTask' = CallbackTaskId(data)
  /\ last_received' = IF CallbackTaskId(data) = NoId THEN last_received
                      ELSE (CallbackTaskId(data) :> now) @@ last_received
  /\ UNCHANGED <<fnVars, running, threads, summary, observed, pipeVars, now, health>>

\* update_summary_stats: clamp, then total
update_summary_stats ==
  /\ tasks' = ClampTasks(tasks)
  /\ summary' = SummaryOf(ClampTasks(tasks))

\* the rest of listen_to_progress.callback: update_summary_stats and the ack
callback_finish ==
  /\ cbTask # NoId
  /\ update_summary_stats
  /\ cbTask' = NoId
  /\ UNCHANGED <<fnVars, running, threads, seed_url_to_task, known_task_ids, observed, delivered, pipeVars,
                 timeVars>>

\* one round of the stats_updater thread
periodic_updates ==
  /\ update_summary_stats
  /\ UNCHANGED <<fnVars, running, threads, seed_url_to_task, known_task_ids, cbTask, observed, delivered, pipeVars,
                 timeVars>>

\* GET /tasks/<task_id>, served by a request thread
get_task(task_id) ==
  /\ observed' = [t \in {task_id} \cap DOMAIN tasks |-> tasks[t]]
  /\ UNCHANGED <<fnVars, running, threads, tasks, summary, seed_url_to_task, known_task_ids, cbTask, delivered,
                 pipeVars, timeVars>>

\* the task ids and URLs of the progress events delivered to the Aggregator
EventTaskIds == 1..2
EventUrls == {UA}

\* progress events as Master, Crawler and Indexer publish them
ProgressInputs ==
  {MasterEvent("job_received", [job_id |-> t]) : t \in EventTaskIds \cup {NoId}}
  \cup {CrawlerEvent("url_crawled", t, [url |-> u]) : t \in EventTaskIds, u \in EventUrls}
  \cup {IndexerEvent("url_indexed", t, u, [content_id |-> t]) :
          t \in EventTaskIds, u \in EventUrls}
  \cup {MasterEvent("task_continuation", [job_id |-> t, url_count |-> 1]) :
          t \in EventTaskIds}

\* the seed lists posted to the Aggregator: two orders of the same URLs
UISeedLists == {<<UA, UAalt>>, <<UAalt, UA>>}

SubmitUI ==
  \E seed_urls \in UISeedLists : \E F \in FaultSets(HomeSteps) :
    submitted < MaxSubmissions /\ home(seed_urls, MaxDepth, None, F)

ProgressStep == \E data \in ProgressInputs : delivered < MaxEvents /\ callback(data)

FinishStep == callback_finish

PeriodicStep == periodic_updates

ReadStep == \E t \in EventTaskIds : get_task(t)

NextUI == SubmitUI \/ ProgressStep \/ FinishStep \/ PeriodicStep \/ ReadStep

\* the Aggregator alone, fed the events the pipeline publishes
SpecUI == Init /\ [][NextUI]_vars

(* -------------------- UI: a task with many URLs ----------------------- *)
\* the i-th page of a large site
PageUrl(i) == <<"http", "://", "a", "/">> \o [j \in 1..i |-> "x"]

\* the i-th event of a run that crawls n pages and then indexes them
RunEvent(i, n) ==
  IF i <= n THEN CrawlerEvent("url_crawled", 1, [url |-> PageUrl(i)])
  ELSE IndexerEvent("url_indexed", 1, PageUrl(i - n), [content_id |-> i - n])

\* the entry of task after the whole callback has handled data
Filed(task, data) ==
  ClampTasks(task.task_id :> TrimLists(EventUpdate(Timeline(task, data), data)))[task.task_id]

\* the entry of task after the callback has handled the events lo..hi of a
\* run that crawls n pages (the run is split in halves to keep the
\* evaluation shallow)
RECURSIVE AfterEvents(_, _, _, _)
AfterEvents(task, lo, hi, n) ==
  IF lo = hi THEN Filed(task, RunEvent(lo, n))
  ELSE CHOOSE after \in {AfterEvents(half, (lo + hi) \div 2 + 1, hi, n) :
                           half \in {AfterEvents(task, lo, (lo + hi) \div 2, n)}} : TRUE

\* the entry of task 1 after the callback has handled the first k events of
\* a run that crawls n pages
AfterRun(k, n) == AfterEvents(NewTask(1, RunEvent(1, n)), 1, k, n)

\* the runs a study starts after: <<pages crawled, pages indexed>>
LongRuns ==
  {<<ListLimit - 1, 0>>, <<ListLimit, 0>>, <<ListLimit, ListLimit - 1>>,
   <<ListLimit, ListLimit>>}

\* the Aggregator after one of the runs
InitLong ==
  /\ InitOutside
  /\ fnArg = <<>>
  /\ fnOut = <<>>
  /\ \E run \in LongRuns :
       tasks = (1 :> AfterRun(run[1] + run[2], run[1]))
  /\ summary = SummaryOf(tasks)
  /\ known_task_ids = {1}
  /\ last_received = (1 :> now)

\* the events that follow the run: pages crawled and indexed, new and old
LongInputs ==
  {CrawlerEvent("url_crawled", 1, [url |-> PageUrl(i)]) :
     i \in {1, ListLimit + 1, ListLimit + 2}}
  \cup {IndexerEvent("url_indexed", 1, PageUrl(i), [content_id |-> i]) :
          i \in {ListLimit, ListLimit + 1}}

LongStep == \E data \in LongInputs : delivered < MaxEvents /\ callback(data)

NextLong == LongStep \/ FinishStep

\* the Aggregator fed further events of a task that has had a long run
SpecLong == InitLong /\ [][NextLong]_vars

(* ---------------------- Properties of the Aggregator ------------------ *)
\* C9: for every tracked task, indexed_urls <= crawled_urls in every state
\* of the Aggregator that the read API can observe, also after a url_indexed
\* event that arrives before the matching url_crawled event.
C9_ObservedIndexedAtMostCrawled ==
  \A t \in DOMAIN observed : observed[t].indexed_urls <= observed[t].crawled_urls

\* the read API has returned a task for which a url_indexed event has been
\* filed and no url_crawled event
C9_ReadAfterEarlyIndexed ==
  \E t \in DOMAIN observed :
    LET evs == observed[t].progress_events
    IN  /\ \E i \in Idx(evs) : evs[i] = "url_indexed"
        /\ \A i \in Idx(evs) : evs[i] # "url_crawled"

\* the entries of the task map that are not finished
LiveTasks == {t \in DOMAIN tasks : tasks[t].status \notin {"completed", "failed"}}

\* C10: two submissions with identical sorted seed-URL lists, the second
\* received before the first task completes, yield exactly one entry in the
\* task map.
C10_OneEntryPerSeedSet ==
  \A t1 \in LiveTasks : \A t2 \in LiveTasks :
    (/\ tasks[t1].seed_urls # <<>>
     /\ sorted(tasks[t1].seed_urls) = sorted(tasks[t2].seed_urls))
    => t1 = t2

\* the form has been posted twice and both posts were entered
C10_TwoSubmissionsEntered ==
  /\ submitted = 2
  /\ \E t1 \in DOMAIN tasks : \E t2 \in DOMAIN tasks :
       /\ t1 # t2
       /\ tasks[t1].seed_urls # <<>>
       /\ tasks[t2].seed_urls # <<>>


(* ------------------- Aggregator: events over time --------------------- *)
\* a timestamp from before the Aggregator started
StaleTime == UI_STARTUP_TIME - 1

\* the progress event named event about task t, as its publisher builds it:
\* Master, Crawler and Indexer for the events they publish, the bare
\* envelope for the events no worker publishes
EventNamed(event, t) ==
  CASE event \in {"job_received", "task_continuation"} ->
         MasterEvent(event, [job_id |-> t])
    [] event = "url_crawled" -> CrawlerEvent(event, t, [url |-> UA])
    [] event = "url_indexed" -> IndexerEvent(event, t, UA, [content_id |-> t])
    [] event = "depth_complete" ->
         [node_type |-> "master", event |-> event, task_id |-> t, depth |-> 1,
          timestamp |-> now]
    [] OTHER -> [node_type |-> "master", event |-> event, task_id |-> t, timestamp |-> now]

\* the event with the timestamp its publisher gave it a while ago
Stamped(data, timestamp) == [timestamp |-> timestamp] @@ data

\* the events the callback tells apart
EventNames == {"job_received", "task_started", "task_continuation", "url_crawled",
               "url_indexed", "depth_complete", "task_completed", "task_failed"}

\* events delivered late keep the timestamp of their publication
LateEventNames == {"job_received", "url_crawled"}

\* the task id of the events delivered to the Aggregator over time
AggTaskIds == {1}

\* the progress events delivered at the current time: just published, or
\* published at startup or before it
AggInputs ==
  {EventNamed(e, t) : e \in EventNames, t \in AggTaskIds}
  \cup {Stamped(EventNamed(e, t), ts) :
          e \in LateEventNames, t \in AggTaskIds, ts \in {UI_STARTUP_TIME, StaleTime}}

AggEventStep == \E data \in AggInputs : delivered < MaxEvents /\ callback(data)

\* time passes
Tick ==
  /\ now < MaxTime
  /\ now' = now + TickSeconds
  /\ UNCHANGED <<fnVars, running, threads, pipeVars, uiVars, health, last_received>>

\* the seconds without an update after which a submitted task is failed
SUBMITTED_STALL_TIMEOUT == 120
\* the seconds without an update after which a task in progress is failed
TASK_STALL_TIMEOUT == 600
\* the seconds without an update after which a task in progress is flagged
SLOW_PROGRESS_AFTER == 180
MAX_ACTIVE_TASKS == 20
\* the seconds without a health event after which a node is offline
OFFLINE_AFTER == 120

\* the body of check_stalled_tasks' loop for one task
StallChecked(task) ==
  IF task.status \in {"completed", "failed"} THEN task
  ELSE IF task.status = "submitted" /\ now - task.last_update > SUBMITTED_STALL_TIMEOUT
  THEN [end_time |-> now, error |-> "stalled in submitted state"]
         @@ [task EXCEPT !.status = "failed"]
  ELSE IF task.status = "in_progress" /\ now - task.last_update > TASK_STALL_TIMEOUT
  THEN [end_time |-> now, error |-> "stalled"] @@ [task EXCEPT !.status = "failed"]
  ELSE IF task.status = "in_progress" /\ now - task.last_update > SLOW_PROGRESS_AFTER
  THEN [warning |-> "slow_progress"] @@ task
  ELSE task

\* the ids active_tasks lists that sort after t by last_update (the order
\* of the ids standing for the list order among equal timestamps)
ActiveAfter(ts, t) ==
  {u \in DOMAIN ts :
     /\ ts[u].status \in {"in_progress", "submitted"}
     /\ \/ ts[u].last_update > ts[t].last_update
        \/ ts[u].last_update = ts[t].last_update /\ u > t}

\* the tasks after the MAX_ACTIVE_TASKS limit is applied to checked, with
\* active_tasks taken from before, the tasks at the start of the pass
AutoCompleted(before, checked) ==
  [t \in DOMAIN checked |->
     IF /\ before[t].status \in {"in_progress", "submitted"}
        /\ Cardinality(ActiveAfter(before, t)) >= MAX_ACTIVE_TASKS
        /\ checked[t].status \in {"in_progress", "submitted"}
     THEN [end_time |-> now,
           completion_details |-> [auto_completed |-> TRUE,
                                   reason |-> "limit_active_tasks"]]
            @@ [checked[t] EXCEPT !.status = "completed"]
     ELSE checked[t]]

\* the tasks after the loop and the limit of one check_stalled_tasks pass
StallPass(ts) == AutoCompleted(ts, [t \in DOMAIN ts |-> StallChecked(ts[t])])

\* one pass of the task_stall_checker thread
check_stalled_tasks ==
  /\ tasks' = ClampTasks(StallPass(tasks))
  /\ summary' = SummaryOf(ClampTasks(StallPass(tasks)))
  /\ UNCHANGED <<fnVars, running, threads, seed_url_to_task, known_task_ids, cbTask, observed, delivered, pipeVars,
                 timeVars>>

StallStep == check_stalled_tasks

\* the counter of the task entry a progress event increments
CounterOf(data) ==
  IF data.event \in {"url_crawled", "crawled"} THEN "crawled_urls" ELSE "indexed_urls"

\* listen_to_progress.callback in worker w on a url_crawled or url_indexed
\* event, up to the read of the counter in `task[...] += 1`: the event is
\* filed under its task and the worker holds the value it has read
counter_read(w, data) ==
  LET task_id == CallbackTaskId(data)
      task == WithEvent(task_id, data)
  IN  /\ w \notin DOMAIN threads
      /\ task_id # NoId
      /\ delivered' = delivered + 1
      /\ tasks' = (task_id :> task) @@ tasks
      /\ seed_url_to_task' = SeedMapAfter(data, task_id)
      /\ known_task_ids' = known_task_ids \cup {task_id}
      /\ last_received' = (task_id :> now) @@ last_received
      /\ threads' = (w :> [data |-> data, task_id |-> task_id,
                           read |-> task[CounterOf(data)]]) @@ threads
      /\ UNCHANGED <<fnVars, running, summary, cbTask, observed, pipeVars, now, health>>

\* the task entry after the worker has stored the counter it read plus one
\* and done the rest of the event's update
Stored(task, data, read) ==
  TrimLists([EventUpdate(task, data) EXCEPT ![CounterOf(data)] = read + 1])

\* the callback in worker w from the store of `task[...] += 1` on: the
\* rest of the update, update_summary_stats and the ack
counter_write(w) ==
  LET t == threads[w]
      after == (t.task_id :> Stored(tasks[t.task_id], t.data, t.read)) @@ tasks
  IN  /\ tasks' = ClampTasks(after)
      /\ summary' = SummaryOf(ClampTasks(after))
      /\ threads' = [v \in DOMAIN threads \ {w} |-> threads[v]]
      /\ UNCHANGED <<fnVars, running, seed_url_to_task, known_task_ids, cbTask, observed,
                     delivered, pipeVars, timeVars>>

\* the url_crawled and url_indexed events of one task
CounterInputs ==
  {CrawlerEvent("url_crawled", 1, [url |-> u]) : u \in {UA, UP}}
  \cup {IndexerEvent("url_indexed", 1, u, [content_id |-> 1]) : u \in {UA, UP}}

CounterRead ==
  \E w \in Workers : \E data \in CounterInputs : delivered < MaxEvents /\ counter_read(w, data)
CounterWrite == \E w \in DOMAIN threads : counter_write(w)

\* the Aggregator with the callback pool, the stats updater and the stall
\* checker running side by side
NextCounters == CounterRead \/ CounterWrite \/ PeriodicStep \/ StallStep \/ Tick
SpecCounters == Init /\ [][NextCounters]_vars

\* GET /clear-tasks: the task map and the summary are reset
clear_tasks ==
  /\ tasks' = <<>>
  /\ summary' = [active_tasks |-> 0, completed_tasks |-> 0, failed_tasks |-> 0,
                 urls_crawled |-> 0, urls_indexed |-> 0]
  /\ UNCHANGED <<fnVars, running, threads, seed_url_to_task, known_task_ids, cbTask, observed,
                 delivered, pipeVars, timeVars>>

ClearStep == clear_tasks

\* the events of two tasks, one of them finishing
SummaryInputs ==
  ProgressInputs
  \cup {[node_type |-> "master", event |-> e, task_id |-> 1, timestamp |-> now] :
          e \in {"task_completed", "task_failed"}}

SummaryStep == \E data \in SummaryInputs : delivered < MaxEvents /\ callback(data)

\* the Aggregator's callback, stats updater, stall checker and clear request
NextSummary == SummaryStep \/ FinishStep \/ PeriodicStep \/ StallStep \/ ClearStep
SpecSummary == Init /\ [][NextSummary]_vars

\* job_received events that name the job's seed URLs, for two jobs of the
\* same seed URLs, and the event that completes the first job's task
SeedInputs ==
  {MasterEvent("job_received", [job_id |-> t, seed_urls |-> seed_urls]) :
     t \in 1..2, seed_urls \in UISeedLists}
  \cup {[node_type |-> "master", event |-> "task_completed", task_id |-> 1,
         timestamp |-> now]}

SeedStep == \E data \in SeedInputs : delivered < MaxEvents /\ callback(data)

\* the Aggregator told of jobs by their seed URLs, over time
NextSeeds == SeedStep \/ FinishStep \/ Tick \/ StallStep
SpecSeeds == Init /\ [][NextSeeds]_vars

\* is_node_offline taking any heartbeat that is not of this instant for old
is_node_offlineAtOnce(last_check_time) == now - last_check_time > 0

\* is_node_offline, for a last_check_time that is set
is_node_offline(last_check_time) == now - last_check_time > OFFLINE_AFTER

\* the health events delivered at the current time: just published, or
\* published before the Aggregator started
HealthInputs ==
  {[node_type |-> n, status |-> "online", hostname |-> "h", timestamp |-> ts] :
     n \in {"crawler", "gateway"}, ts \in {now, StaleTime}}

\* the entry listen_health_status.callback files for a health event (an
\* absent last_check standing for None)
HealthEntry(data) ==
  (IF "timestamp" \in DOMAIN data THEN [last_check |-> data.timestamp] ELSE <<>>)
    @@ [status |-> Get(data, "status", "unknown"),
        hostname |-> Get(data, "hostname", "unknown")]

\* listen_health_status.callback
health_callback(data) ==
  /\ delivered' = delivered + 1
  /\ health' =
       IF "timestamp" \in DOMAIN data /\ data.timestamp < UI_STARTUP_TIME
       THEN health
       ELSE IF Get(data, "node_type", "unknown") \in DOMAIN health
       THEN [health EXCEPT ![data.node_type] = HealthEntry(data)]
       ELSE health
  /\ UNCHANGED <<fnVars, running, threads, pipeVars, tasks, summary, seed_url_to_task, known_task_ids, cbTask,
                 observed, now, last_received>>

HealthStep == \E data \in HealthInputs : delivered < MaxEvents /\ health_callback(data)

\* one round of the health_checker thread
periodic_health_check ==
  /\ health' =
       [n \in DOMAIN health |->
          IF "last_check" \in DOMAIN health[n] /\ is_node_offline(health[n].last_check)
          THEN [health[n] EXCEPT !.status = "offline"]
          ELSE health[n]]
  /\ UNCHANGED <<fnVars, running, threads, pipeVars, uiVars, now, last_received>>

HealthCheckStep == periodic_health_check

NextAgg ==
  AggEventStep \/ FinishStep \/ Tick \/ StallStep \/ HealthStep \/ HealthCheckStep

\* the Aggregator over time, fed the events its callback tells apart
SpecAgg == Init /\ [][NextAgg]_vars

(* -------------------------- UI: heartbeats ---------------------------- *)
\* the seconds between two heartbeats of a node, and between two rounds of
\* the health checker
HEARTBEAT_PERIOD == 30
\* the time up to which heartbeats are followed
MaxBeatTime == 210

\* the components whose health the Aggregator tracks
Tracked == {"master", "crawler", "indexer"}

\* the health event publish_health_status publishes
Heartbeat(n) ==
  [node_type |-> n, hostname |-> "h", status |-> "online", timestamp |-> now]

\* the Aggregator has filed the heartbeat n published at the current time
BeatFiled(n) == "last_check" \in DOMAIN health[n] /\ health[n].last_check = now

\* a node process of type n starts, and with it its heartbeat loop
start_health_heartbeat(n) ==
  /\ n \notin running
  /\ running' = running \cup {n}
  /\ UNCHANGED <<fnVars, threads, pipeVars, uiVars, timeVars>>

\* the node process of type n stops
stop_node(n) ==
  /\ n \in running
  /\ running' = running \ {n}
  /\ UNCHANGED <<fnVars, threads, pipeVars, uiVars, timeVars>>

\* one round of the heartbeat loop of n: the health event is published and
\* delivered to listen_health_status.callback
publish_health_status(n) ==
  /\ n \in running
  /\ ~BeatFiled(n)
  /\ health_callback(Heartbeat(n))

\* time.sleep(30): the period passes once every running loop has had its round
BeatTick ==
  /\ now < MaxBeatTime
  /\ \A n \in running : BeatFiled(n)
  /\ now' = now + HEARTBEAT_PERIOD
  /\ UNCHANGED <<fnVars, running, threads, pipeVars, uiVars, health, last_received>>

StartStep == \E n \in Tracked : start_health_heartbeat(n)
StopStep == \E n \in Tracked : stop_node(n)
BeatStep == \E n \in Tracked : publish_health_status(n)

NextHealth == StartStep \/ StopStep \/ BeatStep \/ BeatTick \/ HealthCheckStep

\* the nodes' heartbeat loops and the Aggregator's health listener and
\* health checker; the checker, a thread of its own, gets its rounds
SpecHealth == Init /\ [][NextHealth]_vars /\ WF_vars(HealthCheckStep)

(* ------------------- UI: more tasks than the limit -------------------- *)
\* the event that made the Aggregator track task t: job_received for the
\* first k tasks, url_crawled for the others
FirstEvent(t, k) ==
  IF t <= k THEN MasterEvent("job_received", [job_id |-> t])
  ELSE CrawlerEvent("url_crawled", t, [url |-> UA])

\* the numbers of tasks tracked, and of those among them still submitted
ManyTasks == {MAX_ACTIVE_TASKS, MAX_ACTIVE_TASKS + 1, MAX_ACTIVE_TASKS + 2}
ManySubmitted == 0..2

\* the Aggregator tracking n tasks, entered in the order of their ids, each
\* after its first event
InitMany ==
  /\ InitOutside
  /\ fnArg = <<>>
  /\ fnOut = <<>>
  /\ \E n \in ManyTasks : \E k \in ManySubmitted :
       tasks = [t \in 1..n |-> Filed(NewTask(t, FirstEvent(t, k)), FirstEvent(t, k))]
  /\ summary = SummaryOf(tasks)
  /\ known_task_ids = DOMAIN tasks
  /\ last_received = [t \in DOMAIN tasks |-> now]

\* the events that follow: pages crawled for the first tasks
ManyInputs == {CrawlerEvent("url_crawled", t, [url |-> UA]) : t \in 1..2}

ManyStep == \E data \in ManyInputs : delivered < MaxEvents /\ callback(data)

NextMany == ManyStep \/ FinishStep \/ Tick \/ StallStep

\* the Aggregator tracking about MAX_ACTIVE_TASKS tasks, over time
SpecMany == InitMany /\ [][NextMany]_vars

\* C11: once a task_completed event has set a task's status to completed,
\* no later progress event for that task id moves its status back to
\* submitted or in_progress.
C11_CompletedIsTerminal ==
  [][\A t \in DOMAIN tasks :
       tasks[t].status = "completed"
         => tasks'[t].status \notin {"submitted", "in_progress"}]_vars

\* a further event has been filed under a task after its task_completed
C11_EventAfterCompleted ==
  \E t \in DOMAIN tasks :
    LET evs == tasks[t].progress_events
    IN  \E i \in Idx(evs) : evs[i] = "task_completed" /\ i < Len(evs)

(* ----------------------- Crawler: robots, pages ----------------------- *)
\* the url_skipped events published about url with reason robots_txt
SkippedEventsOf(url) ==
  {e \in BagToSet(progress) :
     /\ e.event = "url_skipped"
     /\ Get(e, "url", <<>>) = url
     /\ Get(e, "reason", None) = "robots_txt"}

\* C12: for a crawl task whose URL the robots rules disallow, exactly one
\* url_skipped event with reason robots_txt is emitted, no url_crawled event
\* and no index task is produced for that URL, and the task is acked.
C12_DisallowedUrlSkippedOnce ==
  (handled.node = "crawler" /\ handled.line = 240) =>
    /\ handled.acks = <<"ack">>
    /\ handled.msg \notin crawlQ
    /\ \E e \in SkippedEventsOf(handled.msg.url) :
         SkippedEventsOf(handled.msg.url) = {e} /\ CopiesIn(e, progress) = 1
    /\ CrawledEventsOf(handled.msg.url) = {}
    /\ \A i \in indexPublished : i.original_url # handled.msg.url

\* a crawler has just turned down a URL its robots cache disallows
C12_DisallowedUrlHandled ==
  /\ handled.node = "crawler"
  /\ handled.line = 240
  /\ robots_cache["c1"][RobotsUrl(urlparse(handled.msg.url))] = "disallow_all"

\* the normalised URLs whose page was fetched and persisted
CrawledUrls ==
  {b.data.text : b \in {x \in blobs : x.path[1] = "processed_text"}}

\* the events named event published about a URL that normalises to u
EventsAbout(event, u) ==
  {e \in BagToSet(progress) :
     /\ e.event = event
     /\ Get(e, "url", <<>>) # <<>>
     /\ normalize_url(Get(e, "url", <<>>)) = u}

\* exactly one event named event was published about u
OneEventAbout(event, u) ==
  \E e \in EventsAbout(event, u) :
    EventsAbout(event, u) = {e} /\ CopiesIn(e, progress) = 1

\* no crawl task and no index task for u is awaiting delivery
SettledUrl(u) ==
  /\ \A m \in crawlQ : normalize_url(m.url) # u
  /\ \A i \in indexQ : normalize_url(i.original_url) # u

\* C13: for every URL that is crawled, once its crawl task and index task
\* are settled (redelivered after every nack until acked), exactly one
\* url_crawled event and exactly one url_indexed event have been emitted for
\* that URL.
C13_CrawledUrlAnnouncedOnce ==
  \A u \in CrawledUrls :
    SettledUrl(u) =>
      /\ OneEventAbout("url_crawled", u)
      /\ OneEventAbout("url_indexed", u)

\* a page was fetched and persisted, and its tasks are settled
C13_CrawledUrlSettled ==
  \E u \in CrawledUrls : SettledUrl(u)

\* C14: a crawl task with depth = depth_limit writes and announces no link
\* batch and adds no URL other than its own to the seen-set; when it is
\* handled to the end, its page was fetched, both blobs were written and an
\* index task was published for it.
C14_AtLimitNoLinkBatch ==
  [][\A c \in Crawlers : \A m \in crawlQ : \A F \in FaultSets(CrawlerSteps) :
       (/\ process_crawl_task(c, m, F)
        /\ Get(m, "depth", 0) = Get(m, "depth_limit", MAX_DEPTH))
       => /\ \A b \in blobs' \ blobs : b.path[1] # "new_tasks"
          /\ jobQ' = jobQ
          /\ announced' = announced
          /\ seen_urls'[c] \subseteq seen_urls[c] \cup {normalize_url(m.url)}
          /\ handled'.line = 341 =>
               /\ CopiesIn(normalize_url(m.url), fetches')
                    = CopiesIn(normalize_url(m.url), fetches) + 1
               /\ \E b \in blobs' \ blobs : b.path[1] = "raw_html"
               /\ \E b \in blobs' \ blobs : b.path[1] = "processed_text"
               /\ \E i \in indexQ' \ indexQ : i.original_url = m.url
               /\ m \notin crawlQ']_vars

\* a crawler has just handled to the end a task at its depth limit whose
\* page has links
C14_PageAtLimitHandled ==
  /\ handled.node = "crawler"
  /\ handled.line = 341
  /\ handled.msg.depth = handled.msg.depth_limit
  /\ Page(handled.msg.url).links # <<>>

\* C16: when the response to a crawl task's fetch is not HTML, the Crawler
\* writes no blob, publishes no index task and no link batch, emits no
\* url_crawled event, and acks the task.
C16_NonHtmlAckedWithoutEffects ==
  [][\A c \in Crawlers : \A m \in crawlQ : \A F \in FaultSets(CrawlerSteps) :
       (/\ process_crawl_task(c, m, F)
        /\ Page(m.url).kind = "other"
        /\ F \cap {<<"timeout", 0>>, <<"request_error", 0>>} = {}
        /\ CopiesIn(normalize_url(m.url), fetches')
             = CopiesIn(normalize_url(m.url), fetches) + 1)
       => /\ m \notin crawlQ'
          /\ handled'.acks = <<"ack">>
          /\ CrawledEventsOf(m.url)' = CrawledEventsOf(m.url)
          /\ UNCHANGED <<blobs, indexQ, indexPublished, jobQ, announced, progress>>]_vars

\* a crawler has just fetched a page that is not HTML
C16_NonHtmlFetched ==
  /\ handled.node = "crawler"
  /\ handled.line = 346
  /\ Page(handled.msg.url).kind = "other"
  /\ CopiesIn(normalize_url(handled.msg.url), fetches) > 0

\* the netloc without its userinfo
HostInfo(netloc) ==
  IF \E i \in Idx(netloc) : netloc[i] = "@"
  THEN From(netloc, 1 + CHOOSE i \in Idx(netloc) :
                           netloc[i] = "@" /\ \A j \in (i + 1)..Len(netloc) : netloc[j] # "@")
  ELSE netloc

\* the host of a parsed URL: its netloc without userinfo and port
Hostname(netloc) == lower(Before(HostInfo(netloc), FirstIn(HostInfo(netloc), {":"})))

\* the link batches the crawlers wrote
LinkBatches == {b \in blobs : b.path[1] = "new_tasks"}

\* C15: when domain_restriction is set, no URL whose host does not contain
\* the restriction is placed in a link batch.
C15_LinkBatchWithinDomain ==
  \A b \in LinkBatches :
    b.data.domain_restriction # None =>
      \A i \in Idx(b.data.seed_urls) :
        \E j \in Idx(Hostname(urlparse(b.data.seed_urls[i]).netloc)) :
          Hostname(urlparse(b.data.seed_urls[i]).netloc)[j] = b.data.domain_restriction

\* a crawler wrote a link batch under a domain restriction, from a page
\* with a link to another host that it left out
C15_RestrictedLinkBatchWritten ==
  \E b \in LinkBatches :
    /\ b.data.domain_restriction = "a"
    /\ \A i \in Idx(b.data.seed_urls) : b.data.seed_urls[i] # normalize_url(UB)
    /\ handled.node = "crawler"
    /\ \E i \in Idx(Page(handled.msg.url).links) : Page(handled.msg.url).links[i] = UB

(* ------------------------- Indexer: properties ------------------------ *)
\* the url_indexed events published for task_id
IndexedEventsFor(task_id) ==
  {e \in BagToSet(progress) :
     e.event = "url_indexed" /\ Get(e, "task_id", NoId) = task_id}

\* C17: the Indexer acks an index task, and then emits url_indexed with
\* task_id = source_task_id, only when the blob was read and the upsert
\* returned created or updated; when the blob read fails, the index service
\* raises or answers anything else, it nacks and emits no url_indexed.
C17_IndexerAcksOnlyAfterUpsert ==
  [][\A m \in indexQ : \A F \in FaultSets(IndexerSteps) : \A result \in UpsertResults :
       process_indexing_task(m, F, result) =>
         IF /\ F \cap {<<"blob_read", 0>>, <<"es_index", 0>>} = {}
            /\ BlobsAt(m.gcs_processed_path) # {}
            /\ result \in {"created", "updated"}
         THEN /\ handled'.acks = <<"ack">>
              /\ m \notin indexQ'
              /\ \A e \in DOMAIN progress' :
                   CopiesIn(e, progress') > CopiesIn(e, progress)
                     => e \in IndexedEventsFor(m.source_task_id)'
         ELSE /\ handled'.acks = <<"nack">>
              /\ m \in indexQ'
              /\ progress' = progress]_vars

\* the Indexer has just acked an index task and emitted its url_indexed
C17_IndexedAndAnnounced ==
  /\ handled.node = "indexer"
  /\ handled.acks = <<"ack">>
  /\ handled.result \in {"created", "updated"}
  /\ \E e \in IndexedEventsFor(handled.msg.source_task_id) :
       e.url = EffectiveUrl(handled.msg)

\* C18: handling an index task whose document was already written leaves
\* the index with the same documents and the same url and content fields;
\* every upsert is keyed by the task's effective URL (final_url, else
\* original_url).
C18_ReindexLeavesIndexUnchanged ==
  [][\A m \in indexQ : \A F \in FaultSets(IndexerSteps) : \A result \in UpsertResults :
       process_indexing_task(m, F, result) =>
         /\ m \in upserted => es_index' = es_index
         /\ handled'.result # "none" =>
              /\ DOMAIN es_index' = DOMAIN es_index \cup {EffectiveUrl(m)}
              /\ es_index'[EffectiveUrl(m)].url = EffectiveUrl(m)
              /\ \A u \in DOMAIN es_index \ {EffectiveUrl(m)} :
                   es_index'[u] = es_index[u]]_vars

\* the Indexer has just written, and acked, the document of an index task
\* that it had written before
C18_IndexTaskHandledTwice ==
  /\ handled.node = "indexer"
  /\ handled.again
  /\ handled.acks = <<"ack">>
  /\ EffectiveUrl(handled.msg) \in DOMAIN es_index

(* ------------------- Aggregator over time: properties ----------------- *)
\* C19: a progress event whose timestamp is earlier than the Aggregator's
\* startup time is discarded: it creates no task entry and changes no
\* counter, status or timeline.
C19_StaleEventDiscarded ==
  [][\A data \in AggInputs :
       (callback(data) /\ data.timestamp < UI_STARTUP_TIME)
         => UNCHANGED <<tasks, summary, seed_url_to_task, known_task_ids>>]_vars

\* the last event filed under a task was published before the Aggregator
\* started
C19_StaleEventFiled ==
  \E t \in DOMAIN tasks : tasks[t].last_update < UI_STARTUP_TIME

\* the tasks a stall-checker pass has to fail: submitted or in progress,
\* with no update for longer than the timeout of their status
Stalled(t) ==
  \/ tasks[t].status = "submitted"
       /\ now - tasks[t].last_update > SUBMITTED_STALL_TIMEOUT
  \/ tasks[t].status = "in_progress"
       /\ now - tasks[t].last_update > TASK_STALL_TIMEOUT

\* the Aggregator filed an event under t within the timeout of t's status
ReceivingEvents(t) ==
  \/ tasks[t].status = "submitted"
       /\ now - last_received[t] <= SUBMITTED_STALL_TIMEOUT
  \/ tasks[t].status = "in_progress"
       /\ now - last_received[t] <= TASK_STALL_TIMEOUT

\* C20: each stall-checker pass sets status failed, with a stall error, on
\* every task that is submitted with no update for more than 120 s or in
\* progress with no update for more than 600 s, and the summary counts it
\* among the failed tasks; a task that keeps receiving events within those
\* windows is not failed by the pass.
C20_StallCheckerFailsOnlyStalled ==
  [][check_stalled_tasks =>
       \A t \in DOMAIN tasks :
         /\ Stalled(t) =>
              /\ tasks'[t].status = "failed"
              /\ "error" \in DOMAIN tasks'[t]
              /\ summary'.failed_tasks
                   = Cardinality({u \in DOMAIN tasks' : tasks'[u].status = "failed"})
         /\ ReceivingEvents(t) => tasks'[t].status # "failed"]_vars

\* a stall-checker pass has failed a task
C20_TaskFailedByChecker ==
  \E t \in DOMAIN tasks :
    /\ tasks[t].status = "failed"
    /\ Get(tasks[t], "error", None) \in {"stalled", "stalled in submitted state"}
    /\ summary.failed_tasks > 0

(* ------------------------- functions under study ---------------------- *)
\* the tokens that follow the host in the URLs normalize_url is applied to
TailTokens == {"/", "?", "#", "P"}

\* http://a followed by up to MaxTail tokens
NormInputs ==
  {<<"http", "://", "a">> \o tail :
     tail \in UNION {[1..k -> TailTokens] : k \in 0..MaxTail}}

\* the crawler applies normalize_url to the URL, then to what it returned
normalize_again ==
  /\ fnArg.fn = "normalize_url"
  /\ Len(fnOut) < 2
  /\ fnOut' = Append(fnOut, normalize_url(IF fnOut = <<>> THEN fnArg.arg
                                           ELSE fnOut[Len(fnOut)]))
  /\ UNCHANGED <<fnArg, running, threads, pipeVars, uiVars, timeVars>>

\* C21: URL normalisation is idempotent: normalize_url(normalize_url(u))
\* = normalize_url(u) for every URL u, including URLs with an empty or
\* slash-terminated query, trailing slashes and fragments.
C21_NormalizeIdempotent ==
  (fnArg # <<>> /\ fnArg.fn = "normalize_url" /\ Len(fnOut) = 2)
    => fnOut[2] = fnOut[1]

\* normalize_url was applied twice to a URL with a slash-terminated query
C21_SlashQueryNormalizedTwice ==
  /\ fnArg # <<>>
  /\ fnArg.fn = "normalize_url"
  /\ Len(fnOut) = 2
  /\ urlparse(fnArg.arg).query # <<>>
  /\ fnArg.arg[Len(fnArg.arg)] = "/"

\* the orders in which n events can be delivered
Orders(n) == {p \in [1..n -> 1..n] : \A i, j \in 1..n : p[i] = p[j] => i = j}

\* some progress events for one task id, and an order to deliver them in
OrderInputs ==
  {[fn |-> "callback", arg |-> evs, order |-> p] :
     evs \in [1..2 -> EventNames], p \in Orders(2) \ {<<1, 2>>}}

\* the next event of the study: the events of fnArg.arg are first delivered
\* as they stand for task id 1, then in the order fnArg.order for task id 2
NextOrdered ==
  IF delivered < Len(fnArg.arg)
  THEN EventNamed(fnArg.arg[delivered + 1], 1)
  ELSE EventNamed(fnArg.arg[fnArg.order[delivered - Len(fnArg.arg) + 1]], 2)

\* the subscriber delivers the next event of the study to the callback
ordered_delivery ==
  /\ fnArg.fn = "callback"
  /\ delivered < 2 * Len(fnArg.arg)
  /\ callback(NextOrdered)

InitFn ==
  /\ InitState
  /\ fnArg \in {[fn |-> "normalize_url", arg |-> u] : u \in NormInputs} \cup OrderInputs
  /\ fnOut = <<>>

NextFn == normalize_again \/ ordered_delivery \/ FinishStep

\* normalize_url and the progress callback, applied to chosen arguments
SpecFn == InitFn /\ [][NextFn]_vars

\* the url_indexed events among the events of the study
IndexedAmong(evs) == Cardinality({i \in Idx(evs) : evs[i] = "url_indexed"})

\* C22: the events of one task id leave the Aggregator with the same
\* status, crawled_urls, indexed_urls and continuations in every delivery
\* order, apart from indexed_urls where it was clamped to crawled_urls.
C22_DeliveryOrderIrrelevant ==
  (/\ fnArg # <<>>
   /\ fnArg.fn = "callback"
   /\ delivered = 2 * Len(fnArg.arg)
   /\ cbTask = NoId)
  => /\ tasks[1].status = tasks[2].status
     /\ tasks[1].crawled_urls = tasks[2].crawled_urls
     /\ Get(tasks[1], "continuations", 0) = Get(tasks[2], "continuations", 0)
     /\ \/ tasks[1].indexed_urls = tasks[2].indexed_urls
        \/ tasks[1].indexed_urls < IndexedAmong(fnArg.arg)
        \/ tasks[2].indexed_urls < IndexedAmong(fnArg.arg)

\* the same events were delivered in two different orders
C22_TwoOrdersDelivered ==
  /\ fnArg # <<>>
  /\ fnArg.fn = "callback"
  /\ delivered = 2 * Len(fnArg.arg)
  /\ cbTask = NoId
  /\ fnArg.arg[1] # fnArg.arg[2]
  /\ {1, 2} \subseteq DOMAIN tasks

(* ------------------------- Master: properties ------------------------- *)
\* C23: Master acks, and never nacks, a job submission that is empty, not
\* JSON, lacks task_id or gcs_path, has a gcs_path that is not
\* gs://bucket/path, refers to an empty or non-JSON blob, or carries an
\* empty URL list, and publishes no crawl task for it.
C23_MalformedJobAcked ==
  (handled.node = "master" /\ <<"blob_read", 0>> \notin handled.failed)
    => /\ handled.acks = <<"ack">>
       /\ crawlPublished = {}

\* Master has just handled a job submission that has no task_id
C23_JobWithoutTaskIdHandled ==
  /\ handled.node = "master"
  /\ handled.failed = {}
  /\ "task_id" \notin DOMAIN handled.msg

(* ------------------------ Crawler: fetch errors ----------------------- *)
\* C24: when the fetch of a crawl task times out the Crawler nacks the
\* task; on any other request error, a non-2xx status included, it acks the
\* task; in both cases it writes no blob and produces no index task, link
\* batch or url_crawled event.
C24_FetchErrorSettled ==
  [][\A c \in Crawlers : \A m \in crawlQ : \A F \in FaultSets(CrawlerSteps) :
       (/\ process_crawl_task(c, m, F)
        /\ CopiesIn(normalize_url(m.url), fetches')
             = CopiesIn(normalize_url(m.url), fetches) + 1
        /\ \/ F \cap {<<"timeout", 0>>, <<"request_error", 0>>} # {}
           \/ Page(m.url).kind = "error")
       => /\ IF <<"timeout", 0>> \in F
             THEN handled'.acks = <<"nack">> /\ m \in crawlQ'
             ELSE handled'.acks = <<"ack">> /\ m \notin crawlQ'
          /\ CrawledEventsOf(m.url)' = CrawledEventsOf(m.url)
          /\ UNCHANGED <<blobs, indexQ, indexPublished, jobQ, announced>>]_vars

\* a crawler has just nacked a task whose fetch timed out
C24_TimeoutNacked ==
  /\ handled.node = "crawler"
  /\ <<"timeout", 0>> \in handled.failed
  /\ handled.msg \in crawlQ
  /\ CopiesIn(normalize_url(handled.msg.url), fetches) > 0

(* ---------------------- Master: seeds and link batches ---------------- *)
\* the events named event that the progress topic carries
EventsNamed(event) ==
  {e \in DOMAIN progress : e.event = event}

\* C25: for a seed job Master publishes job_received, increments
\* total_jobs_received and emits crawl tasks with depth 0 and
\* is_continuation false; for a link batch a crawler produced it publishes
\* task_continuation and no job_received, leaves total_jobs_received alone
\* and emits tasks with the batch's depth and is_continuation true.
C25_SeedAndBatchToldApart ==
  [][\A m \in jobQ :
       (/\ handle_new_job(m, {})
        /\ handled'.line \in {252, 275})
       => LET batch == (CHOOSE b \in BlobsAt(m.gcs_path) : TRUE).data
              emitted == crawlPublished' \ crawlPublished
              received == MasterEvent("job_received", [job_id |-> m.task_id])
          IN  IF lineage[m.task_id].is_link
              THEN /\ CopiesIn(received, progress') = CopiesIn(received, progress)
                   /\ EventsNamed("task_continuation")' # EventsNamed("task_continuation")
                        \/ \E e \in EventsNamed("task_continuation")' :
                             CopiesIn(e, progress') > CopiesIn(e, progress)
                   /\ total_jobs_received' = total_jobs_received
                   /\ \A t \in emitted : t.depth = batch.depth /\ t.is_continuation
              ELSE /\ CopiesIn(received, progress') = CopiesIn(received, progress) + 1
                   /\ total_jobs_received' = total_jobs_received + 1
                   /\ \A t \in emitted : t.depth = 0 /\ ~t.is_continuation]_vars

\* Master has expanded a link batch that a crawler announced
C25_LinkBatchExpanded ==
  /\ handled.node = "master"
  /\ handled.line \in {252, 275}
  /\ handled.failed = {}
  /\ lineage[handled.msg.task_id].is_link

(* ---------------------- Aggregator: list clean-up --------------------- *)
\* the lists of a task entry that the callback cleans up
CleanedLists == {"crawled_urls_list", "indexed_urls_list", "progress_events"}

\* C26: after each progress event each of crawled_urls_list,
\* indexed_urls_list and progress_events of the task has at most 100 items;
\* a list that exceeds 100 items is replaced by its first 10 items followed
\* by its most recent 40, in their original order.
C26_ListsCleanedUp ==
  [][\A data \in LongInputs :
       callback(data)
       => LET id == CallbackTaskId(data)
              grown == EventUpdate(WithEvent(id, data), data)
          IN  \A l \in CleanedLists :
                /\ Len(tasks'[id][l]) <= ListLimit
                /\ Len(grown[l]) > ListLimit
                     => tasks'[id][l]
                          = [i \in 1..(KeepFirst + KeepLast) |->
                               IF i <= KeepFirst THEN grown[l][i]
                               ELSE grown[l][Len(grown[l]) - (KeepFirst + KeepLast) + i]]]_vars

\* an event has taken a list past 100 items and the callback has cut it
C26_ListCut ==
  /\ delivered > 0
  /\ 1 \in DOMAIN tasks
  /\ \E l \in CleanedLists : Len(tasks[1][l]) = KeepFirst + KeepLast

(* -------------------- Aggregator: limit of active tasks --------------- *)
\* the tasks of ts that are submitted or in progress
ActiveIn(ts) == {t \in DOMAIN ts : ts[t].status \in {"submitted", "in_progress"}}

\* the tasks a stall-checker pass has just completed on its own
AutoCompletedNow ==
  {t \in DOMAIN tasks : /\ "completion_details" \notin DOMAIN tasks[t]
                        /\ "completion_details" \in DOMAIN tasks'[t]
                        /\ tasks'[t].completion_details.auto_completed}

\* C27: after each pass of the stall checker at most MAX_ACTIVE_TASKS (20)
\* tasks are submitted or in progress; when there are more, exactly the
\* active tasks with the oldest last_update are set to completed with
\* completion_details.auto_completed true, and the 20 most recently updated
\* stay active.
C27_ActiveTasksLimited ==
  [][check_stalled_tasks
       => LET live == {t \in ActiveIn(tasks) : tasks'[t].status # "failed"}
          IN  /\ Cardinality(ActiveIn(tasks')) <= MAX_ACTIVE_TASKS
              /\ ActiveIn(tasks') \cup AutoCompletedNow = live
              /\ \A t \in AutoCompletedNow : tasks'[t].status = "completed"
              /\ \A a \in AutoCompletedNow : \A b \in ActiveIn(tasks') :
                   tasks[a].last_update <= tasks[b].last_update
              /\ Cardinality(live) > MAX_ACTIVE_TASKS
                   => Cardinality(ActiveIn(tasks')) = MAX_ACTIVE_TASKS
              /\ Cardinality(live) <= MAX_ACTIVE_TASKS => AutoCompletedNow = {}]_vars

\* the stall checker has completed a task to keep to the limit
C27_TaskAutoCompleted ==
  \E t \in DOMAIN tasks :
    /\ "completion_details" \in DOMAIN tasks[t]
    /\ tasks[t].status = "completed"

(* ---------------------- Aggregator: health status --------------------- *)
\* the last heartbeat the Aggregator has filed for n is older than 120 s
HeartbeatOld(n) ==
  "last_check" \in DOMAIN health[n] /\ now - health[n].last_check > OFFLINE_AFTER

\* n has sent its heartbeat of this period or of the one before
KeepsBeating(n) ==
  /\ n \in running
  /\ "last_check" \in DOMAIN health[n]
  /\ now - health[n].last_check <= HEARTBEAT_PERIOD

LinkUrls == DOMAIN Web \cup {normalize_url(UU)}

\* u has been placed in a link batch
InLinkBatch(u) ==
  \E b \in blobs :
    /\ b.path[1] = "new_tasks"
    /\ \E i \in Idx(b.data.seed_urls) : b.data.seed_urls[i] = u

\* the crawler has fetched u (url_crawled or a fetch error follows the GET)
\* or has skipped it for robots.txt
FetchedOrSkipped(u) ==
  \/ CopiesIn(u, fetches) > 0
  \/ \E e \in BagToSet(progress) : e.event = "url_skipped" /\ Get(e, "url", <<>>) = u

\* C29: with a single crawler, fair delivery and no I/O failure, every link
\* the crawler places in a link batch is eventually fetched (a url_crawled,
\* url_skipped or fetch-error outcome follows for it); it is not dropped as
\* already seen when Master returns it as a crawl task.
C29_BatchedLinkFetched ==
  \A u \in LinkUrls : InLinkBatch(u) ~> FetchedOrSkipped(u)

\* the crawler has handled a crawl task that Master made of a batched link
C29_BatchedLinkReturned ==
  /\ handled.node = "crawler"
  /\ lineage[handled.msg.task_id].is_link
  /\ InLinkBatch(normalize_url(handled.msg.url))

(* ------------------------ Pipeline: depth limit ----------------------- *)
\* the depth the job was submitted with, as its blob records it
SubmittedDepth(job) ==
  (CHOOSE b \in blobs : b.path = <<"crawl_tasks", job>>).data.depth

\* C30: every crawl task transitively derived from job J carries
\* depth_limit equal to J's submitted depth: the limit is preserved through
\* the Crawler's link-batch hand-off and Master's re-expansion.
C30_DepthLimitPreserved ==
  \A t \in crawlPublished :
    t.depth_limit = SubmittedDepth(lineage[t.task_id].job)

\* Master has re-expanded a link batch of a job submitted with depth 2
C30_DeepLinkTaskPublished ==
  \E t \in crawlPublished :
    /\ lineage[t.task_id].is_link
    /\ SubmittedDepth(lineage[t.task_id].job) = DeepDepth

(* --------------------- Pipeline: depth of the crawl ------------------- *)
\* the pages the page at u links to, as the link loop resolves them
LinkedFrom(u) ==
  {normalize_url(urljoin(FinalUrl(u), Page(u).links[i])) : i \in Idx(Page(u).links)}

\* the pages at most k links away from the pages of S
RECURSIVE Within(_, _)
Within(S, k) ==
  IF k <= 0 THEN S ELSE Within(S \cup UNION {LinkedFrom(u) : u \in S}, k - 1)

\* the normalised seed URLs of the job blob b
SeedsOf(b) == {normalize_url(b.data.seed_urls[i]) : i \in Idx(b.data.seed_urls)}

\* C31: with any number of crawler processes, no page is fetched for job J
\* if every link path to it from J's seeds is longer than J's depth limit.
C31_FetchedWithinDepth ==
  \A b \in blobs :
    b.path[1] = "crawl_tasks"
      => \A u \in BagToSet(fetches) : u \in Within(SeedsOf(b), b.data.depth)

\* a second crawler process has fetched a page that a first one found
C31_LinkFetchedByOtherCrawler ==
  /\ handled.node = "crawler"
  /\ lineage[handled.msg.task_id].is_link
  /\ CopiesIn(normalize_url(handled.msg.url), fetches) > 0
  /\ DOMAIN seen_urls # Crawlers

(* ------------------------ Pipeline: quiescence ------------------------ *)
\* no job submission, crawl task or index task is unacked
Quiescent == jobQ = {} /\ crawlQ = {} /\ indexQ = {}

PastTest(u) == {w \in DOMAIN threads : normalize_url(threads[w].msg.url) = u}

\* C33: when two crawl-task deliveries whose URLs normalise to the same
\* value are handled concurrently by two workers of one crawler process, at
\* most one of them passes the seen-set test and fetches the URL.
C33_OneWorkerPasses ==
  /\ \A w \in DOMAIN threads :
       Cardinality(PastTest(normalize_url(threads[w].msg.url))) <= 1
  /\ \A u \in BagToSet(fetches) : CopiesIn(u, fetches) <= 1

\* a worker has fetched a URL and the delivery of a URL of the same
\* normalised value has then been skipped as already seen
C33_SecondDeliverySkipped ==
  /\ handled.node = "crawler"
  /\ handled.line = 225
  /\ threads = <<>>
  /\ CopiesIn(normalize_url(handled.msg.url), fetches) = 1

(* ------------------- UI: concurrent counter updates ------------------- *)
\* how many events of the task's timeline have one of the given names
Handled34(task, names) ==
  Cardinality({i \in Idx(task.progress_events) : task.progress_events[i] \in names})

\* C34: with progress events of one task handled concurrently by several
\* callback workers next to the stall checker and the summary updater, no
\* counter update is lost: once n url_crawled and m <= n url_indexed events
\* have been handled, the task has crawled_urls = n and indexed_urls = m.
C34_NoUpdateLost ==
  threads = <<>>
    => \A t \in DOMAIN tasks :
         LET n == Handled34(tasks[t], {"url_crawled", "crawled"})
             m == Handled34(tasks[t], {"url_indexed", "indexed"})
         IN  m <= n => tasks[t].crawled_urls = n /\ tasks[t].indexed_urls = m

\* two url_crawled events and one url_indexed event of a task have been
\* handled and all three are counted
C34_AllCounted ==
  /\ threads = <<>>
  /\ 1 \in DOMAIN tasks
  /\ tasks[1].crawled_urls = 2
  /\ tasks[1].indexed_urls = 1
  /\ Len(tasks[1].progress_events) = 3

(* --------------------- Handlers: one ack or nack ---------------------- *)
\* C35: every invocation of Master.handle_new_job,
\* Crawler.process_crawl_task and Indexer.process_indexing_task ends with
\* exactly one of ack or nack called on its message, never both and never
\* neither, on every path, including undecodable payloads, JSON payloads
\* that are not objects and exceptions raised mid-processing.
C35_ExactlyOneAckOrNack ==
  handled.node \in {"master", "crawler", "indexer"} => Len(handled.acks) = 1

\* the Indexer has nacked a payload that is a JSON list or is not UTF-8
C35_IndexerNackedUnparsed ==
  /\ handled.node = "indexer"
  /\ "text" \in DOMAIN handled.msg
  /\ handled.acks = <<"nack">>
  /\ handled.line = 207

(* ------------------ Progress: one task id per page -------------------- *)
\* the progress events published so far that have the given name
Events36(name) == {e \in BagToSet(progress) : e.event = name}

\* C36: for every page, the url_indexed event the Indexer emits carries the
\* task_id of the url_crawled event the Crawler emitted for that page: the
\* task id of the crawl task, handed on as source_task_id of the index task.
C36_IndexedUnderCrawledTaskId ==
  \A e \in Events36("url_indexed") :
    \E im \in indexPublished :
      /\ im.content_id = e.content_id
      /\ "task_id" \in DOMAIN e
      /\ e.task_id = im.source_task_id
      /\ \A c \in Events36("url_crawled") : c.url = im.original_url => c.task_id = e.task_id

\* a page has both its url_crawled and its url_indexed event
C36_PageCrawledAndIndexed ==
  \E e \in Events36("url_indexed") : \E im \in indexPublished :
    /\ im.content_id = e.content_id
    /\ \E c \in Events36("url_crawled") : c.url = im.original_url

(* ------------------ Master: invalid and redelivered jobs -------------- *)
\* the lines at which handle_new_job acks and drops a job submission as
\* invalid: task_id or gcs_path missing, blob path malformed, blob empty,
\* URL list empty
DropLines == {187, 194, 203, 212, 228, 261}

\* C37: a job submission that Master acks and drops as invalid produces no
\* job_received or task_continuation event and does not increment
\* total_jobs_received; and a job whose envelope is nacked and redelivered
\* is counted and announced once, not once per delivery.
C37_InvalidJobNotCounted ==
  [][/\ (/\ handled'.node = "master"
         /\ handled'.acks = <<"ack">>
         /\ handled'.line \in DropLines)
          => /\ total_jobs_received' = total_jobs_received
             /\ progress' = progress
     /\ total_jobs_received' <= submitted']_vars

\* Master has acked and dropped a job submission whose URL list is empty
C37_EmptyJobDropped ==
  /\ handled.node = "master"
  /\ handled.acks = <<"ack">>
  /\ handled.line = 261

(* ---------------- Aggregator: seed key of a finished task ------------- *)
\* the seed key of data maps to a task that is completed or failed
MapsToFinished(data) ==
  /\ sorted(data.seed_urls) \in DOMAIN seed_url_to_task
  /\ seed_url_to_task[sorted(data.seed_urls)] \in DOMAIN tasks \ LiveTasks

\* C38: a job_received event is coalesced into an existing task only while
\* that task is live: if the seed key maps to a task that is already
\* completed or failed, the new submission gets its own task entry with
\* status submitted and the seed key is re-registered to the new task id.
C38_FinishedTaskNotReused ==
  [][\A data \in SeedInputs :
       (/\ data.event = "job_received"
        /\ MapsToFinished(data)
        /\ seed_url_to_task[sorted(data.seed_urls)] # data.job_id
        /\ callback(data))
         => /\ data.job_id \in DOMAIN tasks'
            /\ tasks'[data.job_id].status = "submitted"
            /\ seed_url_to_task'[sorted(data.seed_urls)] = data.job_id]_vars

\* a job_received event has been handled whose seed key maps to a task
\* that had failed or was completed
C38_ReceivedAfterFinish ==
  \E key \in DOMAIN seed_url_to_task :
    LET t == seed_url_to_task[key]
    IN  /\ t \in DOMAIN tasks \ LiveTasks
        /\ delivered >= 2
        /\ cbTask # NoId
        /\ tasks[cbTask].progress_events[Len(tasks[cbTask].progress_events)] = "job_received"

(* --------------------- Aggregator: summary totals --------------------- *)
\* the number of tasks of ts that have the given status
WithStatus(ts, status) == Cardinality({t \in DOMAIN ts : ts[t].status = status})

\* sm holds the totals of the tasks ts
TotalsOf(ts, sm) ==
  /\ sm.urls_crawled = SumOver(ts, DOMAIN ts, "crawled_urls")
  /\ sm.urls_indexed = SumOver(ts, DOMAIN ts, "indexed_urls")
  /\ sm.urls_indexed <= sm.urls_crawled
  /\ sm.active_tasks = WithStatus(ts, "in_progress")
  /\ sm.completed_tasks = WithStatus(ts, "completed")
  /\ sm.failed_tasks = WithStatus(ts, "failed")

\* C39: after update_summary_stats runs, summary.urls_crawled and
\* summary.urls_indexed equal the sums of crawled_urls and indexed_urls over
\* all tracked tasks, urls_indexed <= urls_crawled, and active_tasks,
\* completed_tasks and failed_tasks equal the number of tasks with status
\* in_progress, completed and failed.
C39_SummaryTotals ==
  [][(callback_finish \/ periodic_updates \/ check_stalled_tasks)
       => TotalsOf(tasks', summary')]_vars

\* update_summary_stats has lowered the indexed_urls of a task to its
\* crawled_urls and totalled a completed task
C39_ClampedAndTotalled ==
  /\ cbTask = NoId
  /\ summary.completed_tasks = 1
  /\ \E t \in DOMAIN tasks :
       /\ tasks[t].indexed_urls = 0
       /\ \E i \in Idx(tasks[t].progress_events) : tasks[t].progress_events[i] = "url_indexed"

(* ------------------------ Crawler: robots cache ----------------------- *)
\* the (scheme, host) a key of the robots cache stands for: the netloc
\* without userinfo, in lower case
SchemeHost(robots_url) == <<robots_url[1], lower(HostInfo(robots_url[2]))>>

\* the key of the robots cache for the URL of crawl task m
KeyOf(m) == RobotsUrl(urlparse(m.url))

\* C40: within one crawler process handling tasks sequentially, robots.txt
\* is fetched at most once per (scheme, host): the outcome is cached whether
\* the fetch succeeded or failed, and after a failed fetch every URL of that
\* host is allowed.
C40_RobotsFetchedOncePerHost ==
  \A c \in DOMAIN robots_cache :
    /\ \A k1 \in DOMAIN robots_cache[c] : \A k2 \in DOMAIN robots_cache[c] :
         SchemeHost(k1) = SchemeHost(k2) => k1 = k2
    /\ (handled.node = "crawler" /\ <<"robots", 0>> \in handled.failed)
         => /\ KeyOf(handled.msg) \in DOMAIN robots_cache[c]
            /\ robots_cache[c][KeyOf(handled.msg)] = "permissive"
    /\ (handled.node = "crawler" /\ handled.line = 239)
         => \A k \in DOMAIN robots_cache[c] :
              SchemeHost(k) = SchemeHost(KeyOf(handled.msg))
                => robots_cache[c][k] # "permissive"

\* a crawl task of a host whose robots.txt could not be fetched has been
\* handled without another fetch of robots.txt
C40_AllowedAfterFailedFetch ==
  /\ handled.node = "crawler"
  /\ handled.failed = {}
  /\ handled.line \notin {219, 225, 239}
  /\ \E c \in DOMAIN robots_cache :
       /\ KeyOf(handled.msg) \in DOMAIN robots_cache[c]
       /\ robots_cache[c][KeyOf(handled.msg)] = "permissive"

====
